---------------------------- MODULE Spec2Model ----------------------------
(***************************************************************************)
(* A model of the software rasterizer of am1ko/sw-renderer:                *)
(*   - DisplayBuffer (src/src/core.rs): new, clear, set_pixel              *)
(*   - the scanline rasterizer (src/src/rasterization.rs): Triangle and    *)
(*     LineSegment render, fill_bottom_flat_triangle,                      *)
(*     fill_top_flat_triangle, interpolate                                 *)
(*   - Mesh (src/src/core.rs): render (lighting), translate, rotate        *)
(*                                                                         *)
(* f32 values are modelled as integers counting units of 2^-26 (the ulp of *)
(* an f32 in [1/8, 1/4)), rounded to 24 significant bits with ties to even *)
(* after every arithmetic operation, exactly as IEEE-754 single precision  *)
(* does for magnitudes in [1/8, 16).  +inf, -inf and NaN are three extra   *)
(* values.                                                                 *)
(***************************************************************************)
EXTENDS Integers, Sequences, FiniteSets, TLC

(***************************************************************************)
(* Bounds of the model                                                     *)
(***************************************************************************)
\* Display buffer dimensions used for the DisplayBuffer specification.
Width == 2
Height == 2
\* Number of set_pixel calls recorded between two clears.
MaxCalls == 2

\* Display buffer dimensions used for the rasterizer specification.
RWidth == 3
RHeight == 4
\* Display buffer dimensions used for the line-drawing specification.
LWidth == 7
LHeight == 5
\* Window dimensions of the demo program (WIN_WIDTH, WIN_HEIGHT), scaled down.
WIN_WIDTH == 4
WIN_HEIGHT == 3
\* Number of events pending at one poll of the window, and the largest
\* distance of the eye from the origin, in steps of 1/FPS.
MaxEvents == 2
MaxEye == 1
\* Largest number of columns and of rows of a Matrix.
MaxDim == 3
\* Largest row and largest depth handed to interpolate.
MaxRow == 3
MaxDepth == 2

\* Bytes per pixel (BYTES_PER_PIXEL, the only pixel format of the program).
BytesPerPixel == 4

(***************************************************************************)
(* f32                                                                     *)
(***************************************************************************)
FOne == 2^26
FInf == 2^30
FNegInf == -FInf
FNaN == FInf + 1
\* std::f32::MIN: the most negative finite value.
F32_MIN == -(FInf - 1)

HalfF == 2^25

IsNaN(a) == a = FNaN
IsInf(a) == a = FInf \/ a = FNegInf
IsFinite(a) == ~IsNaN(a) /\ ~IsInf(a)

Abs(n) == IF n < 0 THEN -n ELSE n
Sign(n) == IF n < 0 THEN -1 ELSE 1

\* Number of low bits an integer magnitude a < 2^31 has beyond 24 significant bits.
ExtraBits(a) ==
    IF a < 2^24 THEN 0
    ELSE IF a >= 2^30 THEN 7
    ELSE CHOOSE s \in 1..6 : a < 2^(24 + s) /\ a >= 2^(23 + s)

\* Round an integer to 24 significant bits, ties to even.
Round24(n) ==
    LET a == Abs(n)
        s == ExtraBits(a)
        q == a \div (2^s)
        r == a % (2^s)
        half == 2^(s - 1)
        up == r > half \/ (r = half /\ q % 2 = 1)
    IN  IF s = 0 THEN n ELSE Sign(n) * (IF up THEN q + 1 ELSE q) * 2^s

\* Result of an operation whose exact value is n units: rounded, or infinite
\* when it leaves the finite range of the model.
FRound(n) ==
    LET v == Round24(n)
    IN  IF v >= FInf THEN FInf ELSE IF v <= FNegInf THEN FNegInf ELSE v

\* a < b on f32: false whenever an operand is NaN.
FLt(a, b) == ~IsNaN(a) /\ ~IsNaN(b) /\ a < b
FLe(a, b) == ~IsNaN(a) /\ ~IsNaN(b) /\ a <= b
\* a == b on f32: false whenever an operand is NaN.
FEq(a, b) == ~IsNaN(a) /\ ~IsNaN(b) /\ a = b

\* usize/i32 as f32 (exact for the small integers of the model).
IntToF(i) == i * FOne

\* Number of trailing zero bits of a non-zero integer.
TrailingZeros(n) == CHOOSE k \in 0..30 : Abs(n) % (2^k) = 0 /\ Abs(n) % (2^(k + 1)) # 0

Min(a, b) == IF a < b THEN a ELSE b
Max(a, b) == IF a < b THEN b ELSE a

\* a + b on f32
FAdd(a, b) ==
    IF IsNaN(a) \/ IsNaN(b) THEN FNaN
    ELSE IF IsInf(a) THEN (IF IsInf(b) /\ a # b THEN FNaN ELSE a)
    ELSE IF IsInf(b) THEN b
    ELSE IF a = 0 THEN b
    ELSE IF b = 0 THEN a
    ELSE FRound(a + b)

\* -a on f32
FNeg(a) == IF IsNaN(a) THEN FNaN ELSE -a

\* a - b on f32
FSub(a, b) == FAdd(a, FNeg(b))

\* a * b on f32.  Finite operands: the exact product is rounded once; the
\* operand with the fewer significant bits is taken as the multiplier.
FMul(a, b) ==
    IF IsNaN(a) \/ IsNaN(b) THEN FNaN
    ELSE IF IsInf(a) \/ IsInf(b)
         THEN (IF a = 0 \/ b = 0 THEN FNaN
               ELSE IF Sign(a) = Sign(b) THEN FInf ELSE FNegInf)
    ELSE IF a = 0 \/ b = 0 THEN 0
    ELSE IF a = FOne THEN b
    ELSE IF b = FOne THEN a
    ELSE LET swap == TrailingZeros(a) > TrailingZeros(b)
             m == IF swap THEN b ELSE a
             k == IF swap THEN a ELSE b
             tz == TrailingZeros(k)
             ko == k \div (2^tz)
         IN  IF tz >= 26
             THEN FRound(m * ko * 2^(tz - 26))
             ELSE LET r == Round24(Abs(m * ko))
                  IN  FRound(Sign(m * ko) * (r \div (2^(26 - tz))))

\* a / b on f32.  Finite operands: the exact quotient is rounded once to 24
\* significant bits, ties to even.
FDiv(a, b) ==
    IF IsNaN(a) \/ IsNaN(b) THEN FNaN
    ELSE IF IsInf(a)
         THEN (IF IsInf(b) THEN FNaN
               ELSE IF Sign(a) = Sign(b) THEN FInf ELSE FNegInf)
    ELSE IF IsInf(b) THEN 0
    ELSE IF b = 0 THEN (IF a = 0 THEN FNaN ELSE IF a > 0 THEN FInf ELSE FNegInf)
    ELSE IF a = 0 THEN 0
    ELSE LET t == Min(TrailingZeros(a), TrailingZeros(b))
             n == Abs(a) \div (2^t)
             d == Abs(b) \div (2^t)
             q == (n * FOne) \div d
             rem == (n * FOne) % d
             s == ExtraBits(q)
             hi == q \div (2^s)
             low == q % (2^s)
             half == IF s = 0 THEN 0 ELSE 2^(s - 1)
             up == IF s = 0
                   THEN 2 * rem > d \/ (2 * rem = d /\ hi % 2 = 1)
                   ELSE \/ low > half
                        \/ (low = half /\ rem > 0)
                        \/ (low = half /\ rem = 0 /\ hi % 2 = 1)
             sgn == IF Sign(a) = Sign(b) THEN 1 ELSE -1
         IN  FRound(sgn * (IF up THEN hi + 1 ELSE hi) * 2^s)

\* usize::MAX and the wrap-around of a negative i32 cast to usize
\* (stand-ins: any value above every buffer dimension).
UsizeMax == 2^30

\* `f as usize`: saturating, NaN becomes 0.
FloatToUsize(a) ==
    IF IsNaN(a) THEN 0
    ELSE IF a = FInf THEN UsizeMax
    ELSE IF a <= 0 THEN 0
    ELSE a \div FOne

\* `f as i32`: truncation toward zero, saturating, NaN becomes 0.
FloatToI32(a) ==
    IF IsNaN(a) THEN 0
    ELSE IF a = FInf THEN UsizeMax
    ELSE IF a = FNegInf THEN -UsizeMax
    ELSE Sign(a) * (Abs(a) \div FOne)

\* `i as usize` for an i32: a negative value wraps around.
I32ToUsize(i) == IF i < 0 THEN UsizeMax + i ELSE i

(***************************************************************************)
(* Color (RGBA8888) and DisplayBuffer                                      *)
(***************************************************************************)
Color(r, g, b, a) == [r |-> r, g |-> g, b |-> b, a |-> a]

\* DisplayBuffer::new.  The record also carries `panicked`: whether an
\* assertion of an operation on the buffer has failed (the process aborts).
NewBuffer(w, h, bytes) ==
    [ width |-> w, height |-> h, bpp |-> bytes,
      data |-> [i \in 0..(w * h * bytes - 1) |-> 0],
      z_buffer |-> [i \in 0..(w * h - 1) |-> F32_MIN],
      panicked |-> FALSE ]

\* DisplayBuffer::size and DisplayBuffer::num_pixels
Size(buf) == buf.height * buf.width * buf.bpp
NumPixels(buf) == buf.height * buf.width

MutClearKeepDepth(buf) ==
    [buf EXCEPT !.data = [i \in 0..(buf.width * buf.height * buf.bpp - 1) |-> 0]]

\* DisplayBuffer::clear
Clear(buf) ==
    [buf EXCEPT !.data = [i \in 0..(buf.width * buf.height * buf.bpp - 1) |-> 0],
                !.z_buffer = [i \in 0..(buf.width * buf.height - 1) |-> F32_MIN]]

MutPixelIndexNoFlip(buf, x, y) == y * buf.width + x

\* set_pixel: let index = (self.height - y - 1) * self.width + x
PixelIndex(buf, x, y) == (buf.height - y - 1) * buf.width + x

MutDepthTestLe(stored, z) == FLe(stored, z)

\* set_pixel: the depth test  self.z_buffer[index] < z
DepthTest(stored, z) == FLt(stored, z)

\* set_pixel: the four byte stores
StoreColor(data, bytes, index, color) ==
    [data EXCEPT ![index * bytes] = color.r,
                 ![index * bytes + 1] = color.g,
                 ![index * bytes + 2] = color.b,
                 ![index * bytes + 3] = color.a]

MutSetPixelNoAssert(buf, x, y, z, color) ==
    IF buf.panicked THEN buf
    ELSE LET index == PixelIndex(buf, x, y)
         IN  IF index < NumPixels(buf) /\ DepthTest(buf.z_buffer[index], z)
             THEN [buf EXCEPT !.z_buffer = [@ EXCEPT ![index] = z],
                              !.data = StoreColor(@, buf.bpp, index, color)]
             ELSE buf

\* DisplayBuffer::set_pixel.  x and y are usize values.
SetPixel(buf, x, y, z, color) ==
    IF buf.panicked THEN buf
    ELSE IF ~(x < buf.width) \/ ~(y < buf.height) THEN [buf EXCEPT !.panicked = TRUE]
    ELSE LET index == PixelIndex(buf, x, y)
         IN  IF index < NumPixels(buf) /\ DepthTest(buf.z_buffer[index], z)
             THEN [buf EXCEPT !.z_buffer = [@ EXCEPT ![index] = z],
                              !.data = StoreColor(@, buf.bpp, index, color)]
             ELSE buf

(***************************************************************************)
(* Rasterizer (src/src/rasterization.rs)                                   *)
(***************************************************************************)
\* Vector3<f32> and the primitives built from it.  Triangle, LineSegment and
\* their helpers to_usize, is_top_flat and is_bottom_flat are declared in a
\* file of the repository that is not part of the sources at hand.
Vec3(x, y, z) == [x |-> x, y |-> y, z |-> z]
Triangle(v0, v1, v2) == [v0 |-> v0, v1 |-> v1, v2 |-> v2]
LineSegment(v0, v1) == [v0 |-> v0, v1 |-> v1]

\* Triangle::to_usize: every component cast with `as usize`.
VecToUsize(v) == [x |-> FloatToUsize(v.x), y |-> FloatToUsize(v.y), z |-> FloatToUsize(v.z)]
ToUsize(t) == [v0 |-> VecToUsize(t.v0), v1 |-> VecToUsize(t.v1), v2 |-> VecToUsize(t.v2)]

\* Triangle::is_top_flat (v0.y == v1.y) and Triangle::is_bottom_flat (v1.y == v2.y)
IsTopFlat(t) == FEq(t.v0.y, t.v1.y)
IsBottomFlat(t) == FEq(t.v1.y, t.v2.y)

\* interpolate with the offset taken from x1 instead of x0.
MutInterpolateFromX1(x, y1, y0, x1, x0) ==
    FAdd(y0, FDiv(FMul(FSub(x, x1), FSub(y1, y0)), FSub(x1, x0)))

\* interpolate: y0 + (x - x0)*(y1 - y0)/(x1-x0)
Interpolate(x, y1, y0, x1, x0) ==
    FAdd(y0, FDiv(FMul(FSub(x, x0), FSub(y1, y0)), FSub(x1, x0)))

\* LineSegment::render: the Bresenham loop, from (x, y) to (x2, y2).
RECURSIVE LineLoop(_, _, _, _, _, _, _, _, _, _, _, _)
LineLoop(buf, x, y, x2, y2, dx, dy, sx, sy, err, z, color) ==
    LET drawn == SetPixel(buf, I32ToUsize(x), I32ToUsize(y), z, color)
    IN  IF drawn.panicked THEN drawn
        ELSE IF x = x2 /\ y = y2 THEN drawn
        ELSE LET e2 == 2 * err
                 stepx == e2 > -dy
                 stepy == e2 < dx
                 err1 == IF stepx THEN err - dy ELSE err
                 err2 == IF stepy THEN err1 + dx ELSE err1
             IN  LineLoop(drawn, IF stepx THEN x + sx ELSE x, IF stepy THEN y + sy ELSE y,
                          x2, y2, dx, dy, sx, sy, err2, z, color)

\* LineSegment::render: the two early returns
LineFits(seg, buf) ==
    /\ ~(FloatToUsize(seg.v0.x) >= buf.width \/ FloatToUsize(seg.v0.y) >= buf.height)
    /\ ~(FloatToUsize(seg.v1.x) >= buf.width \/ FloatToUsize(seg.v1.y) >= buf.height)

MutLineRenderSkipFirstPixel(seg, color, buf) ==
    IF buf.panicked \/ ~LineFits(seg, buf) THEN buf
    ELSE LET x == FloatToI32(seg.v0.x)
             y == FloatToI32(seg.v0.y)
             x2 == FloatToI32(seg.v1.x)
             y2 == FloatToI32(seg.v1.y)
             dx == Abs(x2 - x)
             dy == Abs(y2 - y)
             sx == IF x < x2 THEN 1 ELSE -1
             sy == IF y < y2 THEN 1 ELSE -1
             stepx == 2 * (dx - dy) > -dy
             stepy == 2 * (dx - dy) < dx
             err == (dx - dy) - (IF stepx THEN dy ELSE 0) + (IF stepy THEN dx ELSE 0)
         IN  IF x = x2 /\ y = y2 THEN buf
             ELSE LineLoop(buf, IF stepx THEN x + sx ELSE x, IF stepy THEN y + sy ELSE y,
                           x2, y2, dx, dy, sx, sy, err, seg.v0.z, color)

\* LineSegment::render: the coordinates the Bresenham loop hands to
\* set_pixel, in order, from (x, y) to (x2, y2).
RECURSIVE LineVisits(_, _, _, _, _, _, _, _, _)
LineVisits(x, y, x2, y2, dx, dy, sx, sy, err) ==
    IF x = x2 /\ y = y2 THEN << <<x, y>> >>
    ELSE LET e2 == 2 * err
             stepx == e2 > -dy
             stepy == e2 < dx
             err1 == IF stepx THEN err - dy ELSE err
             err2 == IF stepy THEN err1 + dx ELSE err1
         IN  << <<x, y>> >> \o LineVisits(IF stepx THEN x + sx ELSE x, IF stepy THEN y + sy ELSE y,
                                        x2, y2, dx, dy, sx, sy, err2)

\* The coordinates visited for a line segment that passes the early returns.
LineTrace(seg) ==
    LET x == FloatToI32(seg.v0.x)
        y == FloatToI32(seg.v0.y)
        x2 == FloatToI32(seg.v1.x)
        y2 == FloatToI32(seg.v1.y)
        dx == Abs(x2 - x)
        dy == Abs(y2 - y)
        sx == IF x < x2 THEN 1 ELSE -1
        sy == IF y < y2 THEN 1 ELSE -1
    IN  LineVisits(x, y, x2, y2, dx, dy, sx, sy, dx - dy)

\* A line drawn along x first and then along y.
MutLineRenderAlongAxes(seg, color, buf) ==
    IF buf.panicked \/ ~LineFits(seg, buf) THEN buf
    ELSE LET x == FloatToI32(seg.v0.x)
             y == FloatToI32(seg.v0.y)
             x2 == FloatToI32(seg.v1.x)
             y2 == FloatToI32(seg.v1.y)
             dx == Abs(x2 - x)
             dy == Abs(y2 - y)
             sx == IF x < x2 THEN 1 ELSE -1
             sy == IF y < y2 THEN 1 ELSE -1
         IN  LineLoop(LineLoop(buf, x, y, x2, y, dx, 0, sx, sy, dx, seg.v0.z, color),
                      x2, y, x2, y2, 0, dy, sx, sy, -dy, seg.v0.z, color)

\* impl Renderable for LineSegment<Vector3<f32>>: render
LineRender(seg, color, buf) ==
    IF buf.panicked \/ ~LineFits(seg, buf) THEN buf
    ELSE LET x == FloatToI32(seg.v0.x)
             y == FloatToI32(seg.v0.y)
             x2 == FloatToI32(seg.v1.x)
             y2 == FloatToI32(seg.v1.y)
             dx == Abs(x2 - x)
             dy == Abs(y2 - y)
             sx == IF x < x2 THEN 1 ELSE -1
             sy == IF y < y2 THEN 1 ELSE -1
         IN  LineLoop(buf, x, y, x2, y2, dx, dy, sx, sy, dx - dy, seg.v0.z, color)

\* fill_bottom_flat_triangle: the scanline at row y and the rows below it,
\* down to row ylo.  v0, v1, v2 are the usize vertices (top, bottom left,
\* bottom right).
RECURSIVE BottomFlatRows(_, _, _, _, _, _, _, _, _, _, _)
BottomFlatRows(buf, y, ylo, x_start, x_end, v0, v1, v2, inv_slope_1, inv_slope_2, color) ==
    IF y < ylo \/ buf.panicked THEN buf
    ELSE LET z_start == Interpolate(IntToF(y), IntToF(v0.z), IntToF(v1.z),
                                    IntToF(v0.y), IntToF(v1.y))
             z_end == Interpolate(IntToF(y), IntToF(v0.z), IntToF(v2.z),
                                  IntToF(v0.y), IntToF(v2.y))
             scan_line == LineSegment(Vec3(x_start, IntToF(y), z_start),
                                      Vec3(x_end, IntToF(y), z_end))
         IN  BottomFlatRows(LineRender(scan_line, color, buf), y - 1, ylo,
                            FAdd(x_start, inv_slope_1), FAdd(x_end, inv_slope_2),
                            v0, v1, v2, inv_slope_1, inv_slope_2, color)

\* fill_bottom_flat_triangle
FillBottomFlatTriangle(triangle, color, buf) ==
    LET u == ToUsize(triangle)
        v0 == u.v0
        v1 == IF FLt(triangle.v1.x, triangle.v2.x) THEN u.v1 ELSE u.v2
        v2 == IF FLt(triangle.v1.x, triangle.v2.x) THEN u.v2 ELSE u.v1
        inv_slope_1 == FDiv(FSub(IntToF(v0.x), IntToF(v1.x)), FSub(IntToF(v1.y), IntToF(v0.y)))
        inv_slope_2 == FDiv(FSub(IntToF(v0.x), IntToF(v2.x)), FSub(IntToF(v1.y), IntToF(v0.y)))
    IN  BottomFlatRows(buf, v0.y, v1.y, IntToF(v0.x), IntToF(v0.x),
                       v0, v1, v2, inv_slope_1, inv_slope_2, color)

\* fill_top_flat_triangle: the scanline at row y and the rows above it, up
\* to row yhi.  v0, v1, v2 are the usize vertices (top left, top right,
\* bottom).
RECURSIVE TopFlatRows(_, _, _, _, _, _, _, _, _, _, _)
TopFlatRows(buf, y, yhi, x_start, x_end, v0, v1, v2, inv_slope_1, inv_slope_2, color) ==
    IF y > yhi \/ buf.panicked THEN buf
    ELSE LET z_start == Interpolate(IntToF(y), IntToF(v0.z), IntToF(v2.z),
                                    IntToF(v0.y), IntToF(v2.y))
             z_end == Interpolate(IntToF(y), IntToF(v1.z), IntToF(v2.z),
                                  IntToF(v1.y), IntToF(v2.y))
             scan_line == LineSegment(Vec3(x_start, IntToF(y), z_start),
                                      Vec3(x_end, IntToF(y), z_end))
         IN  TopFlatRows(LineRender(scan_line, color, buf), y + 1, yhi,
                         FSub(x_start, inv_slope_1), FSub(x_end, inv_slope_2),
                         v0, v1, v2, inv_slope_1, inv_slope_2, color)

\* fill_top_flat_triangle
FillTopFlatTriangle(triangle, color, buf) ==
    LET u == ToUsize(triangle)
        v0 == IF FLt(triangle.v0.x, triangle.v1.x) THEN u.v0 ELSE u.v1
        v1 == IF FLt(triangle.v0.x, triangle.v1.x) THEN u.v1 ELSE u.v0
        v2 == u.v2
        inv_slope_1 == FDiv(FSub(IntToF(v0.x), IntToF(v2.x)), FSub(IntToF(v2.y), IntToF(v0.y)))
        inv_slope_2 == FDiv(FSub(IntToF(v1.x), IntToF(v2.x)), FSub(IntToF(v2.y), IntToF(v1.y)))
    IN  TopFlatRows(buf, v2.y, v0.y, IntToF(v2.x), IntToF(v2.x),
                    v0, v1, v2, inv_slope_1, inv_slope_2, color)

MutTriangleFitsFirstVertex(t, buf) ==
    LET u == ToUsize(t)
    IN  ~(u.v0.x >= buf.width \/ u.v0.y >= buf.height)

\* Triangle::render: the bounds check on the usize vertices
TriangleFits(t, buf) ==
    LET u == ToUsize(t)
    IN  ~(\/ u.v0.x >= buf.width \/ u.v0.y >= buf.height
          \/ u.v1.x >= buf.width \/ u.v1.y >= buf.height
          \/ u.v2.x >= buf.width \/ u.v2.y >= buf.height)

\* Triangle::render: the 4th point, on the edge v0-v2 at the height of v1
MiddleVertex(t) ==
    LET x4 == FAdd(t.v0.x, FMul(FDiv(FSub(t.v0.y, t.v1.y), FSub(t.v0.y, t.v2.y)),
                                FSub(t.v2.x, t.v0.x)))
    IN  Vec3(x4, t.v1.y, t.v1.z)

\* fill_bottom_flat_triangle: the scan lines rendered, from row y down to
\* row ylo.
RECURSIVE BottomFlatScanLines(_, _, _, _, _, _, _, _, _)
BottomFlatScanLines(y, ylo, x_start, x_end, v0, v1, v2, inv_slope_1, inv_slope_2) ==
    IF y < ylo THEN <<>>
    ELSE LET z_start == Interpolate(IntToF(y), IntToF(v0.z), IntToF(v1.z),
                                    IntToF(v0.y), IntToF(v1.y))
             z_end == Interpolate(IntToF(y), IntToF(v0.z), IntToF(v2.z),
                                  IntToF(v0.y), IntToF(v2.y))
         IN  << LineSegment(Vec3(x_start, IntToF(y), z_start), Vec3(x_end, IntToF(y), z_end)) >>
                 \o BottomFlatScanLines(y - 1, ylo, FAdd(x_start, inv_slope_1),
                                        FAdd(x_end, inv_slope_2),
                                        v0, v1, v2, inv_slope_1, inv_slope_2)

\* fill_top_flat_triangle: the scan lines rendered, from row y up to row yhi.
RECURSIVE TopFlatScanLines(_, _, _, _, _, _, _, _, _)
TopFlatScanLines(y, yhi, x_start, x_end, v0, v1, v2, inv_slope_1, inv_slope_2) ==
    IF y > yhi THEN <<>>
    ELSE LET z_start == Interpolate(IntToF(y), IntToF(v0.z), IntToF(v2.z),
                                    IntToF(v0.y), IntToF(v2.y))
             z_end == Interpolate(IntToF(y), IntToF(v1.z), IntToF(v2.z),
                                  IntToF(v1.y), IntToF(v2.y))
         IN  << LineSegment(Vec3(x_start, IntToF(y), z_start), Vec3(x_end, IntToF(y), z_end)) >>
                 \o TopFlatScanLines(y + 1, yhi, FSub(x_start, inv_slope_1),
                                     FSub(x_end, inv_slope_2),
                                     v0, v1, v2, inv_slope_1, inv_slope_2)

\* The usize vertices a fill function works on: the apex and the left and
\* right vertex of the flat edge.
FlatVertices(f) ==
    LET u == ToUsize(f.triangle)
    IN  IF f.fill = "bottom_flat"
        THEN [apex |-> u.v0,
              left |-> IF FLt(f.triangle.v1.x, f.triangle.v2.x) THEN u.v1 ELSE u.v2,
              right |-> IF FLt(f.triangle.v1.x, f.triangle.v2.x) THEN u.v2 ELSE u.v1]
        ELSE [apex |-> u.v2,
              left |-> IF FLt(f.triangle.v0.x, f.triangle.v1.x) THEN u.v0 ELSE u.v1,
              right |-> IF FLt(f.triangle.v0.x, f.triangle.v1.x) THEN u.v1 ELSE u.v0]

\* The scan lines a fill function renders, in order.
FillScanLines(f) ==
    LET w == FlatVertices(f)
    IN  IF f.fill = "bottom_flat"
        THEN LET v0 == w.apex
                 v1 == w.left
                 v2 == w.right
                 inv_slope_1 == FDiv(FSub(IntToF(v0.x), IntToF(v1.x)), FSub(IntToF(v1.y), IntToF(v0.y)))
                 inv_slope_2 == FDiv(FSub(IntToF(v0.x), IntToF(v2.x)), FSub(IntToF(v1.y), IntToF(v0.y)))
             IN  BottomFlatScanLines(v0.y, v1.y, IntToF(v0.x), IntToF(v0.x),
                                     v0, v1, v2, inv_slope_1, inv_slope_2)
        ELSE LET v0 == w.left
                 v1 == w.right
                 v2 == w.apex
                 inv_slope_1 == FDiv(FSub(IntToF(v0.x), IntToF(v2.x)), FSub(IntToF(v2.y), IntToF(v0.y)))
                 inv_slope_2 == FDiv(FSub(IntToF(v1.x), IntToF(v2.x)), FSub(IntToF(v2.y), IntToF(v1.y)))
             IN  TopFlatScanLines(v2.y, v0.y, IntToF(v2.x), IntToF(v2.x),
                                  v0, v1, v2, inv_slope_1, inv_slope_2)

\* Triangle::render, the fill functions it calls in order: one for a flat
\* triangle, two for a triangle that is split.
TriangleFills(t) ==
    IF IsTopFlat(t) THEN <<[fill |-> "top_flat", triangle |-> t]>>
    ELSE IF IsBottomFlat(t) THEN <<[fill |-> "bottom_flat", triangle |-> t]>>
    ELSE LET v_middle == MiddleVertex(t)
         IN  << [fill |-> "bottom_flat", triangle |-> Triangle(t.v0, t.v1, v_middle)],
                [fill |-> "top_flat", triangle |-> Triangle(t.v1, v_middle, t.v2)] >>

\* Triangle::render without the second fill of a split triangle.
MutTriangleRenderBottomOnly(t, color, buf) ==
    IF buf.panicked \/ ~TriangleFits(t, buf) THEN buf
    ELSE IF IsTopFlat(t) THEN FillTopFlatTriangle(t, color, buf)
    ELSE IF IsBottomFlat(t) THEN FillBottomFlatTriangle(t, color, buf)
    ELSE FillBottomFlatTriangle(Triangle(t.v0, t.v1, MiddleVertex(t)), color, buf)

\* impl Renderable for Triangle<Vector3<f32>>: render
TriangleRender(t, color, buf) ==
    IF buf.panicked \/ ~TriangleFits(t, buf) THEN buf
    ELSE IF IsTopFlat(t) THEN FillTopFlatTriangle(t, color, buf)
    ELSE IF IsBottomFlat(t) THEN FillBottomFlatTriangle(t, color, buf)
    ELSE LET v_middle == MiddleVertex(t)
             bottom_flat == Triangle(t.v0, t.v1, v_middle)
             top_flat == Triangle(t.v1, v_middle, t.v2)
         IN  FillTopFlatTriangle(top_flat, color,
                                 FillBottomFlatTriangle(bottom_flat, color, buf))

(***************************************************************************)
(* Geometry: Vertex, Face, Mesh and the nalgebra operations they use       *)
(***************************************************************************)
Vec4(x, y, z, w) == [x |-> x, y |-> y, z |-> z, w |-> w]
Vertex(color, position, normal) == [color |-> color, position |-> position, normal |-> normal]
Face(v0, v1, v2) == [v0 |-> v0, v1 |-> v1, v2 |-> v2]

RowVector4(a, b, c, d) == <<a, b, c, d>>

\* Matrix4 * Vector4: the columns of the matrix, scaled by the components of
\* the vector, are accumulated from the first column to the last.
MatVec4(m, v) ==
    LET row(i) == FAdd(FAdd(FAdd(FMul(m[i][1], v.x), FMul(m[i][2], v.y)),
                            FMul(m[i][3], v.z)),
                       FMul(m[i][4], v.w))
    IN  Vec4(row(1), row(2), row(3), row(4))

\* Matrix4 * Matrix4
MatMul4(a, b) ==
    [i \in 1..4 |-> [j \in 1..4 |->
        FAdd(FAdd(FAdd(FMul(a[i][1], b[1][j]), FMul(a[i][2], b[2][j])),
                  FMul(a[i][3], b[3][j])),
             FMul(a[i][4], b[4][j]))]]

\* Matrix3 * Vector3
MatVec3(m, v) ==
    LET row(i) == FAdd(FAdd(FMul(m[i][1], v.x), FMul(m[i][2], v.y)), FMul(m[i][3], v.z))
    IN  Vec3(row(1), row(2), row(3))

\* fixed_slice::<U3, U3>(0, 0)
Upper3(m) == [i \in 1..3 |-> [j \in 1..3 |-> m[i][j]]]

Transpose3(m) == [i \in 1..3 |-> [j \in 1..3 |-> m[j][i]]]

\* 3x3 determinant by the first row, as try_inverse computes it.
Determinant3(m) ==
    LET minor_m12_m23 == FSub(FMul(m[2][2], m[3][3]), FMul(m[3][2], m[2][3]))
        minor_m11_m23 == FSub(FMul(m[2][1], m[3][3]), FMul(m[3][1], m[2][3]))
        minor_m11_m22 == FSub(FMul(m[2][1], m[3][2]), FMul(m[3][1], m[2][2]))
    IN  FAdd(FSub(FMul(m[1][1], minor_m12_m23), FMul(m[1][2], minor_m11_m23)),
             FMul(m[1][3], minor_m11_m22))

\* A `let` binding: v is evaluated once and F applied to its value.
Let(v, F(_)) == CHOOSE r \in {F(x) : x \in {v}} : TRUE

\* try_inverse without the test of the determinant: the cofactors are
\* divided by it even when it is zero.
MutTryInverse3NoCheck(m) ==
    Let(Determinant3(m), LAMBDA d :
        LET cof(a, b, c, e) == FDiv(FSub(FMul(a, b), FMul(c, e)), d)
        IN  [some |-> TRUE,
             m |-> << << cof(m[2][2], m[3][3], m[3][2], m[2][3]),
                         cof(m[1][3], m[3][2], m[3][3], m[1][2]),
                         cof(m[1][2], m[2][3], m[2][2], m[1][3]) >>,
                      << cof(m[3][1], m[2][3], m[2][1], m[3][3]),
                         cof(m[1][1], m[3][3], m[3][1], m[1][3]),
                         cof(m[1][3], m[2][1], m[2][3], m[1][1]) >>,
                      << cof(m[2][1], m[3][2], m[3][1], m[2][2]),
                         cof(m[1][2], m[3][1], m[3][2], m[1][1]),
                         cof(m[1][1], m[2][2], m[2][1], m[1][2]) >> >>])

\* try_inverse of a 3x3 matrix: None exactly when the determinant is zero.
TryInverse3(m) ==
    Let(Determinant3(m), LAMBDA d :
        LET cof(a, b, c, e) == FDiv(FSub(FMul(a, b), FMul(c, e)), d)
        IN  IF d = 0 THEN [some |-> FALSE]
            ELSE [some |-> TRUE,
                  m |-> << << cof(m[2][2], m[3][3], m[3][2], m[2][3]),
                              cof(m[1][3], m[3][2], m[3][3], m[1][2]),
                              cof(m[1][2], m[2][3], m[2][2], m[1][3]) >>,
                           << cof(m[3][1], m[2][3], m[2][1], m[3][3]),
                              cof(m[1][1], m[3][3], m[3][1], m[1][3]),
                              cof(m[1][3], m[2][1], m[2][3], m[1][1]) >>,
                           << cof(m[2][1], m[3][2], m[3][1], m[2][2]),
                              cof(m[1][2], m[3][1], m[3][2], m[1][1]),
                              cof(m[1][1], m[2][2], m[2][1], m[1][2]) >> >>])

\* Face<Vector4<f32>>::transform.  ok is FALSE when expect() panics.
FaceTransform(face, m) ==
    Let(TryInverse3(Upper3(m)), LAMBDA inv :
        IF ~inv.some THEN [ok |-> FALSE]
        ELSE Let(Transpose3(inv.m), LAMBDA m_normal :
                 LET vertex(v) == Vertex(v.color, MatVec4(m, v.position), MatVec3(m_normal, v.normal))
                 IN  [ok |-> TRUE, face |-> Face(vertex(face.v0), vertex(face.v1), vertex(face.v2))]))

\* Mesh::new
NewMesh == [position |-> Vec4(0, 0, 0, FOne), angle |-> Vec3(0, 0, 0), faces |-> <<>>]

\* The translation matrix of Mesh::translate with the translation in the
\* last row instead of the last column.
MutTranslationMatrixTransposed(t) ==
    << RowVector4(FOne, 0, 0, 0),
       RowVector4(0, FOne, 0, 0),
       RowVector4(0, 0, FOne, 0),
       RowVector4(t.x, t.y, t.z, FOne) >>

\* The matrix `xform` of Mesh::translate
TranslationMatrix(t) ==
    << RowVector4(FOne, 0, 0, t.x),
       RowVector4(0, FOne, 0, t.y),
       RowVector4(0, 0, FOne, t.z),
       RowVector4(0, 0, 0, FOne) >>

\* Mesh::translate
MeshTranslate(m, translation) ==
    [m EXCEPT !.position = MatVec4(TranslationMatrix(translation), m.position)]

\* Mesh::rotate
MeshRotate(m, angle) ==
    [m EXCEPT !.angle = Vec3(FAdd(m.angle.x, angle.x),
                             FAdd(m.angle.y, angle.y),
                             FAdd(m.angle.z, angle.z))]

\* faces.push(face), done by the code that builds the mesh
MeshPush(m, face) == [m EXCEPT !.faces = Append(m.faces, face)]

(***************************************************************************)
(* Mesh::render: model transform, lighting, viewport transform             *)
(***************************************************************************)
\* f32::sqrt of the squares of the multiples of 1/2 up to 3.5, the only
\* squared lengths the meshes and eyes of the model produce.
FSqrt(a) ==
    IF IsNaN(a) \/ a < 0 THEN FNaN
    ELSE IF a = FInf THEN FInf
    ELSE CHOOSE r \in {k * HalfF : k \in 0..7} : FMul(r, r) = a

Sub3(a, b) == Vec3(FSub(a.x, b.x), FSub(a.y, b.y), FSub(a.z, b.z))

\* Vector3::dot
Dot(a, b) == FAdd(FAdd(FMul(a.x, b.x), FMul(a.y, b.y)), FMul(a.z, b.z))

\* Vector3::norm
Norm(v) == FSqrt(Dot(v, v))

\* Vector3::normalize: every component divided by the norm (0/0 is NaN).
Normalize(v) == Let(Norm(v), LAMBDA n : Vec3(FDiv(v.x, n), FDiv(v.y, n), FDiv(v.z, n)))

\* cos and sin of the angles the rendered meshes have.
FCos(a) == CASE a = 0 -> FOne
FSin(a) == CASE a = 0 -> 0

\* m_trans * m_rot_z * m_rot_y * m_rot_x
ModelMatrix(m) ==
    LET m_rot_x == << RowVector4(FOne, 0, 0, 0),
                      RowVector4(0, FCos(m.angle.x), FSin(m.angle.x), 0),
                      RowVector4(0, FNeg(FSin(m.angle.x)), FCos(m.angle.x), 0),
                      RowVector4(0, 0, 0, FOne) >>
        m_rot_y == << RowVector4(FCos(m.angle.y), 0, FNeg(FSin(m.angle.y)), 0),
                      RowVector4(0, FOne, 0, 0),
                      RowVector4(FSin(m.angle.y), 0, FCos(m.angle.y), 0),
                      RowVector4(0, 0, 0, FOne) >>
        m_rot_z == << RowVector4(FCos(m.angle.z), FNeg(FSin(m.angle.z)), 0, 0),
                      RowVector4(FSin(m.angle.z), FCos(m.angle.z), 0, 0),
                      RowVector4(0, 0, FOne, 0),
                      RowVector4(0, 0, 0, FOne) >>
        m_trans == << RowVector4(FOne, 0, 0, m.position.x),
                      RowVector4(0, FOne, 0, m.position.y),
                      RowVector4(0, 0, FOne, m.position.z),
                      RowVector4(0, 0, 0, FOne) >>
    IN  Let(MatMul4(m_trans, m_rot_z), LAMBDA m_tz :
            Let(MatMul4(m_tz, m_rot_y), LAMBDA m_tzy : MatMul4(m_tzy, m_rot_x)))

\* reduce_dim * position
ReduceDim(p) == Vec3(p.x, p.y, p.z)

\* The brightness of a world-space vertex seen from the eye.
Brightness(eye, v) ==
    Let(Sub3(eye, ReduceDim(v.position)), LAMBDA to_eye :
        Let(Normalize(to_eye), LAMBDA light : Dot(light, v.normal)))

\* assert!(brightness <= 1.0): fails for a brightness above 1 and for NaN.
BrightnessAsserted(b) == FLe(b, FOne)

\* brightness_v0 > 0.0 || brightness_v1 > 0.0 || brightness_v2 > 0.0
IsLit(b0, b1, b2) == FLt(0, b0) \/ FLt(0, b1) \/ FLt(0, b2)

\* `f as u8`: truncation toward zero, saturating, NaN becomes 0.
FloatToU8(a) ==
    IF IsNaN(a) THEN 0
    ELSE IF a <= 0 THEN 0
    ELSE IF a = FInf THEN 255
    ELSE Min(255, a \div FOne)

\* The colour of a vertex of t_ndc: every channel times the brightness.
ScaleColor(color, b) ==
    Color(FloatToU8(FMul(IntToF(color.r), b)),
          FloatToU8(FMul(IntToF(color.g), b)),
          FloatToU8(FMul(IntToF(color.b), b)),
          FloatToU8(FMul(IntToF(color.a), b)))

\* Step 5, the viewport transform of one NDC position.
Viewport(ndc, buf) ==
    Vec3(FMul(FMul(FAdd(FOne, ndc.x), HalfF), IntToF(buf.width)),
         FMul(FMul(FAdd(FOne, ndc.y), HalfF), IntToF(buf.height)),
         ndc.z)

\* Face<Vector3<f32>>::render, the scanline strategy: the vertices sorted by
\* descending y and the triangle filled by Triangle::render, in the colour of
\* its top vertex.
FaceRender(face, buf) ==
    LET vs == <<face.v0, face.v1, face.v2>>
        perm == CHOOSE p \in {<<1, 2, 3>>, <<1, 3, 2>>, <<2, 1, 3>>, <<2, 3, 1>>, <<3, 1, 2>>, <<3, 2, 1>>} :
                    /\ ~FLt(vs[p[1]].position.y, vs[p[2]].position.y)
                    /\ ~FLt(vs[p[2]].position.y, vs[p[3]].position.y)
    IN  Let(Triangle(vs[perm[1]].position, vs[perm[2]].position, vs[perm[3]].position),
            LAMBDA t : TriangleRender(t, vs[perm[1]].color, buf))

\* One iteration of the loop over the faces of Mesh::render, for face i in
\* world space.
RenderFace(fw, i, eye, ndc, acc) ==
    Let(<<Brightness(eye, fw.v0), Brightness(eye, fw.v1), Brightness(eye, fw.v2)>>, LAMBDA b :
        IF ~(BrightnessAsserted(b[1]) /\ BrightnessAsserted(b[2]) /\ BrightnessAsserted(b[3]))
        THEN [acc EXCEPT !.buf.panicked = TRUE]
        ELSE IF ~IsLit(b[1], b[2], b[3]) THEN acc
        ELSE Let(Face(Vertex(ScaleColor(fw.v0.color, b[1]), Viewport(ndc[1], acc.buf), fw.v0.normal),
                      Vertex(ScaleColor(fw.v1.color, b[2]), Viewport(ndc[2], acc.buf), fw.v1.normal),
                      Vertex(ScaleColor(fw.v2.color, b[3]), Viewport(ndc[3], acc.buf), fw.v2.normal)),
                 LAMBDA t_viewport :
                     [buf |-> FaceRender(t_viewport, acc.buf),
                      drawn |-> Append(acc.drawn,
                                       [index |-> i, brightness |-> b, face |-> t_viewport])]))

\* The loop over the faces of Mesh::render, from face i on.  acc.buf is the
\* display buffer, acc.drawn the faces handed to Face::render so far.  ndc
\* holds the NDC positions of the three vertices, the outcome of steps 2 to 4
\* (view, projection, perspective divide) for the camera of the call.
RECURSIVE RenderFaces(_, _, _, _, _, _)
RenderFaces(m, model, eye, ndc, i, acc) ==
    IF i > Len(m.faces) \/ acc.buf.panicked THEN acc
    ELSE Let(FaceTransform(m.faces[i], model), LAMBDA world :
             IF ~world.ok THEN [acc EXCEPT !.buf.panicked = TRUE]
             ELSE Let(RenderFace(world.face, i, eye, ndc, acc), LAMBDA next :
                      RenderFaces(m, model, eye, ndc, i + 1, next)))

\* Mesh::render
MeshRender(m, eye, ndc, buf) ==
    Let(ModelMatrix(m), LAMBDA model :
        RenderFaces(m, model, eye, ndc, 1, [buf |-> buf, drawn |-> <<>>]))

(***************************************************************************)
(* The demo program (main.rs): its pixel array, wireframe renderer and     *)
(* frame loop                                                              *)
(***************************************************************************)
Vec2(x, y) == [x |-> x, y |-> y]

\* [0; WIN_HEIGHT * WIN_WIDTH * BYTES_PER_PIXEL]
ZeroedPixels == [i \in 0..(WIN_HEIGHT * WIN_WIDTH * BytesPerPixel - 1) |-> 0]

\* 0xFFFFFFFF, a u32 colour as its four bytes from the lowest to the highest
White == <<255, 255, 255, 255>>

\* set_pixel of main.rs.  The usize arithmetic wraps when y > WIN_HEIGHT (a
\* release build; a debug build panics there).
DemoSetPixel(x, y, color, pixels) ==
    LET len == WIN_WIDTH * WIN_HEIGHT * BytesPerPixel
        index == ((WIN_HEIGHT - y) * WIN_WIDTH * BytesPerPixel + x * BytesPerPixel) % UsizeMax
    IN  IF index > 0 /\ index < len - BytesPerPixel
        THEN [i \in DOMAIN pixels |->
                 IF i \in index..(index + 3) THEN color[i - index + 1] ELSE pixels[i]]
        ELSE pixels

\* dist > threshold in draw_line, for dist = a.sqrt() and threshold = 1.0:
\* the square root of the f32 next above 1.0 rounds to 1.0.
DistOverThreshold(a) == ~IsNaN(a) /\ a > FOne + 2^3

\* draw_line: the middle of the segment is drawn and the two halves are
\* drawn in turn, while the segment is longer than the threshold and its
\* middle is in the window.
RECURSIVE DrawLine(_, _, _, _)
DrawLine(p1, p2, color, pixels) ==
    LET sub == Vec2(FSub(p2.x, p1.x), FSub(p2.y, p1.y))
        middle == Vec2(FAdd(p1.x, FDiv(sub.x, IntToF(2))), FAdd(p1.y, FDiv(sub.y, IntToF(2))))
    IN  IF ~DistOverThreshold(Abs(FAdd(sub.x, sub.y))) THEN pixels
        ELSE IF ~(/\ FLe(0, middle.x) /\ FLe(middle.x, IntToF(WIN_WIDTH))
                  /\ FLe(0, middle.y) /\ FLe(middle.y, IntToF(WIN_HEIGHT))) THEN pixels
        ELSE Let(DemoSetPixel(FloatToUsize(middle.x), FloatToUsize(middle.y), color, pixels),
                 LAMBDA drawn :
                     Let(DrawLine(p1, middle, color, drawn),
                         LAMBDA half : DrawLine(middle, p2, color, half)))

\* render_mesh, from the raster-space vertices project_vertex yields for the
\* polygons of the mesh: the three edges of every polygon are drawn in white.
RECURSIVE RenderMesh(_, _)
RenderMesh(polys, pixels) ==
    IF polys = <<>> THEN pixels
    ELSE LET p == Head(polys)
         IN  Let(DrawLine(p[1], p[2], White, pixels), LAMBDA a :
                 Let(DrawLine(p[2], p[3], White, a), LAMBDA b :
                     Let(DrawLine(p[3], p[1], White, b), LAMBDA c :
                         RenderMesh(Tail(polys), c))))

\* The events of window.events(): the three that quit, the presses and
\* releases of the keys that move the eye, and any other event.
QuitEvents == {"Closed", "Q", "Escape"}
KeyEvents == {"PressD", "ReleaseD", "PressA", "ReleaseA", "PressW", "ReleaseW", "PressS", "ReleaseS"}
Events == QuitEvents \cup KeyEvents \cup {"Other"}

\* One arm of the match on an event: the velocity after the event.
OnEvent(event, vel) ==
    CASE event = "PressD" -> [vel EXCEPT !.x = 1]
      [] event = "ReleaseD" -> [vel EXCEPT !.x = 0]
      [] event = "PressA" -> [vel EXCEPT !.x = -1]
      [] event = "ReleaseA" -> [vel EXCEPT !.x = 0]
      [] event = "PressW" -> [vel EXCEPT !.z = -1]
      [] event = "ReleaseW" -> [vel EXCEPT !.z = 0]
      [] event = "PressS" -> [vel EXCEPT !.z = 1]
      [] event = "ReleaseS" -> [vel EXCEPT !.z = 0]
      [] OTHER -> vel

\* for event in window.events(): the events are handled in order until one
\* of them quits.
RECURSIVE HandleEvents(_, _)
HandleEvents(events, vel) ==
    IF events = <<>> THEN [quit |-> FALSE, vel |-> vel]
    ELSE IF Head(events) \in QuitEvents THEN [quit |-> TRUE, vel |-> vel]
    ELSE HandleEvents(Tail(events), OnEvent(Head(events), vel))

\* The end of an iteration without the test of the clock.
MutPresentAlways(window, pixels, late) == pixels

\* The window after the `if` that ends an iteration: the texture made of
\* the pixels is displayed when more than 1/FPS has elapsed on the clock.
Present(window, pixels, late) == IF late THEN pixels ELSE window

(***************************************************************************)
(* Matrix (vector.rs): column-major matrices of f32                        *)
(***************************************************************************)
\* struct Matrix; data is indexed from 0.
Matrix(cols, rows, data) == [cols |-> cols, rows |-> rows, data |-> data]

\* Matrix::new: vec![0.0; (cols*rows) as usize]
MatrixNew(cols, rows) == Matrix(cols, rows, [i \in 0..(cols * rows - 1) |-> 0])

\* The two nested loops of Matrix::identity, from column c and row r on.
RECURSIVE IdentityLoop(_, _, _, _)
IdentityLoop(ret, dim, c, r) ==
    IF c >= dim THEN ret
    ELSE IF r >= dim THEN IdentityLoop(ret, dim, c + 1, 0)
    ELSE LET i == c * ret.rows + r
         IN  IdentityLoop([ret EXCEPT !.data[i] = IF c = r THEN FOne ELSE 0], dim, c, r + 1)

\* Matrix::identity without the loops that fill it.
MutMatrixIdentityNotFilled(dim) == MatrixNew(dim, dim)

\* Matrix::identity
MatrixIdentity(dim) == IdentityLoop(MatrixNew(dim, dim), dim, 0, 0)

\* The two nested loops of Mul<f32> for Matrix, from column c and row r on.
RECURSIVE MulLoop(_, _, _, _)
MulLoop(ret, other, c, r) ==
    IF c >= ret.cols THEN ret
    ELSE IF r >= ret.rows THEN MulLoop(ret, other, c + 1, 0)
    ELSE LET i == c * ret.rows + r
         IN  MulLoop([ret EXCEPT !.data[i] = FMul(ret.data[i], other)], other, c, r + 1)

\* The loops of mul with the index c*cols + r: in a matrix that is not
\* square some elements are multiplied twice and others never.
RECURSIVE MutMulLoopByCols(_, _, _, _)
MutMulLoopByCols(ret, other, c, r) ==
    IF c >= ret.cols THEN ret
    ELSE IF r >= ret.rows THEN MutMulLoopByCols(ret, other, c + 1, 0)
    ELSE LET i == (c * ret.cols + r) % (ret.cols * ret.rows)
         IN  MutMulLoopByCols([ret EXCEPT !.data[i] = FMul(ret.data[i], other)], other, c, r + 1)

MutMatrixMulByCols(self, other) == MutMulLoopByCols(self, other, 0, 0)

\* Mul<f32> for Matrix: mul
MatrixMul(self, other) == MulLoop(self, other, 0, 0)

(***************************************************************************)
(* State                                                                   *)
(***************************************************************************)
VARIABLES
    buffer,     \* the DisplayBuffer (with its panicked flag)
    calls,      \* history: the set_pixel calls made since new() or the last clear()
    last,       \* history: the last operation and its arguments
    mesh,       \* the Mesh
    demo        \* the locals of main() of the demo program

vars == <<buffer, calls, last, mesh, demo>>

\* The locals of main() before main() has run.
NoDemo == [pc |-> "start"]

\* Colours and depths the callers of the model pass.
ColorA == Color(10, 20, 30, 255)
ColorB == Color(200, 100, 50, 128)
Palette == {ColorA, ColorB}
Depths == {F32_MIN, IntToF(0), IntToF(1), FNaN}

(***************************************************************************)
(* DisplayBuffer used directly: set_pixel and clear in any order           *)
(***************************************************************************)
InitBuffer ==
    /\ buffer = NewBuffer(Width, Height, BytesPerPixel)
    /\ calls = <<>>
    /\ last = [op |-> "new"]
    /\ mesh = NewMesh
    /\ demo = NoDemo

DoSetPixel ==
    /\ ~buffer.panicked
    /\ Len(calls) < MaxCalls
    /\ \E x \in 0..Width, y \in 0..Height, z \in Depths, c \in Palette :
          /\ buffer' = SetPixel(buffer, x, y, z, c)
          /\ calls' = Append(calls, [x |-> x, y |-> y, z |-> z, color |-> c])
          /\ last' = [op |-> "set_pixel", x |-> x, y |-> y, z |-> z, color |-> c]
    /\ UNCHANGED <<mesh, demo>>

DoClear ==
    /\ ~buffer.panicked
    /\ buffer' = Clear(buffer)
    /\ calls' = <<>>
    /\ last' = [op |-> "clear", n |-> Len(calls),
                dirty |-> \E i \in DOMAIN buffer.data : buffer.data[i] # 0]
    /\ UNCHANGED <<mesh, demo>>

NextBuffer == DoSetPixel \/ DoClear

SpecBuffer == InitBuffer /\ [][NextBuffer]_vars

(***************************************************************************)
(* The rasterizer drawing into a display buffer: triangles and line        *)
(* segments with raster coordinates inside the buffer, beyond its width or *)
(* height, and negative.                                                   *)
(***************************************************************************)
\* Raster x and y coordinates of the vertices: -1, every column and row of
\* the buffer, the first coordinate beyond it, and one row between two
\* integer rows.
RasterXs == {IntToF(i) : i \in -1..RWidth}
RasterYs == {IntToF(i) : i \in -1..RHeight} \cup {IntToF(1) + HalfF}

\* Triangles as the pipeline hands them to the rasterizer: vertices sorted by
\* descending y.
VertexDepths == {<<1, 1, 1>>, <<2, 0, 1>>}
RasterTriangles ==
    {Triangle(Vec3(x0, y0, IntToF(zs[1])), Vec3(x1, y1, IntToF(zs[2])), Vec3(x2, y2, IntToF(zs[3]))) :
        <<x0, x1, x2>> \in RasterXs \X RasterXs \X RasterXs,
        <<y0, y1, y2>> \in {ys \in RasterYs \X RasterYs \X RasterYs : ys[1] >= ys[2] /\ ys[2] >= ys[3]},
        zs \in VertexDepths}

LineDepths == {IntToF(1), F32_MIN, FNaN}
\* The line segments with both endpoints on the grid of points xs \X ys.
LinesOn(xs, ys) ==
    {LineSegment(Vec3(x0, y0, z), Vec3(x1, y1, z)) :
        <<x0, y0>> \in xs \X ys, <<x1, y1>> \in xs \X ys, z \in LineDepths}

\* A frame: the buffer is cleared (or new) and one primitive is rendered
\* into it.  An empty buffer shows every write a primitive can make to any
\* buffer: a depth that passes the test against a stored depth passes it
\* against the sentinel.
Cleared == last.op \in {"new", "clear"}

InitRaster ==
    /\ buffer = NewBuffer(RWidth, RHeight, BytesPerPixel)
    /\ calls = <<>>
    /\ last = [op |-> "new"]
    /\ mesh = NewMesh
    /\ demo = NoDemo

DoTriangle ==
    /\ ~buffer.panicked
    /\ Cleared
    /\ \E t \in RasterTriangles, c \in {ColorA} :
          /\ buffer' = TriangleRender(t, c, buffer)
          /\ last' = [op |-> "triangle", t |-> t, color |-> c]
    /\ UNCHANGED <<mesh, demo>>
    /\ UNCHANGED calls

DoLine(lines) ==
    /\ ~buffer.panicked
    /\ Cleared
    /\ \E l \in lines, c \in {ColorA} :
          /\ buffer' = LineRender(l, c, buffer)
          /\ last' = [op |-> "line", l |-> l, color |-> c]
    /\ UNCHANGED <<mesh, demo>>
    /\ UNCHANGED calls

DoRasterLine == DoLine(LinesOn(RasterXs, RasterYs))

NextRaster == DoTriangle \/ DoRasterLine \/ DoClear

SpecRaster == InitRaster /\ [][NextRaster]_vars

(***************************************************************************)
(* Line segments drawn into a buffer that holds the line of the            *)
(* repository's line-drawing test, from (0,1) to (6,4).                    *)
(***************************************************************************)
LineXs == {IntToF(i) : i \in -1..LWidth}
LineYs == {IntToF(i) : i \in -1..LHeight}

InitLine ==
    /\ buffer = NewBuffer(LWidth, LHeight, BytesPerPixel)
    /\ calls = <<>>
    /\ last = [op |-> "new"]
    /\ mesh = NewMesh
    /\ demo = NoDemo

DoTestLine == DoLine(LinesOn(LineXs, LineYs))

NextLine == DoTestLine \/ DoClear

SpecLine == InitLine /\ [][NextLine]_vars

(***************************************************************************)
(* A mesh being built and moved: push, translate and rotate in any order   *)
(***************************************************************************)
\* Number of operations on the mesh in one history, and of faces of a mesh.
MaxOps == 3
MaxFaces == 2

\* Half an ulp of 2.0: 2.0 + FTiny rounds back to 2.0, FTiny + FTiny does not
\* vanish.
FTiny == 2^3

\* Vertex colours of the meshes.
LightA == Color(12, 8, 5, 15)
LightB == Color(15, 1, 0, 10)

\* Model-space positions of the vertices of a face.
PosA == Vec4(0, 0, 0, FOne)
PosB == Vec4(FOne + HalfF, 0, 0, FOne)
PosC == Vec4(0, FOne + HalfF, 0, FOne)

\* Normals: unit vectors toward +z, -z and -x, and a vector of length 2.
NFront == Vec3(0, 0, FOne)
NBack == Vec3(0, 0, -FOne)
NLeft == Vec3(-FOne, 0, 0)
NLong == Vec3(0, 0, 2 * FOne)

FaceOf(n0, n1, n2) ==
    Face(Vertex(LightA, PosA, n0), Vertex(LightB, PosB, n1), Vertex(LightA, PosC, n2))

FaceCatalogue ==
    { FaceOf(NFront, NFront, NFront),
      FaceOf(NBack, NBack, NBack),
      FaceOf(NBack, NLeft, NFront),
      FaceOf(NLong, NLong, NLong) }

Translations == { Vec3(IntToF(2), IntToF(1), IntToF(-3)), Vec3(FTiny, IntToF(2), 0), Vec3(FInf, 0, 0) }
Rotations == { Vec3(IntToF(2), 0, HalfF), Vec3(FTiny, FOne, 0) }

InitMesh ==
    /\ buffer = NewBuffer(RWidth, RHeight, BytesPerPixel)
    /\ calls = <<>>
    /\ last = [op |-> "new"]
    /\ mesh = NewMesh
    /\ demo = NoDemo

DoTranslate ==
    /\ Len(calls) < MaxOps
    /\ \E t \in Translations :
          /\ mesh' = MeshTranslate(mesh, t)
          /\ calls' = Append(calls, [op |-> "translate", arg |-> t])
          /\ last' = [op |-> "translate", arg |-> t]
    /\ UNCHANGED <<buffer, demo>>

DoRotate ==
    /\ Len(calls) < MaxOps
    /\ \E a \in Rotations :
          /\ mesh' = MeshRotate(mesh, a)
          /\ calls' = Append(calls, [op |-> "rotate", arg |-> a])
          /\ last' = [op |-> "rotate", arg |-> a]
    /\ UNCHANGED <<buffer, demo>>

DoPush ==
    /\ ~buffer.panicked
    /\ Len(calls) < MaxOps
    /\ Len(mesh.faces) < MaxFaces
    /\ \E f \in FaceCatalogue :
          /\ mesh' = MeshPush(mesh, f)
          /\ calls' = Append(calls, [op |-> "push", arg |-> f])
          /\ last' = [op |-> "push", arg |-> f]
    /\ UNCHANGED <<buffer, demo>>

NextMesh == DoTranslate \/ DoRotate \/ DoPush

SpecMesh == InitMesh /\ [][NextMesh]_vars

(***************************************************************************)
(* A mesh rendered into a display buffer from several eye positions        *)
(***************************************************************************)
\* The eye in front of the faces, behind them, and on the first vertex.
Eyes == { Vec3(0, 0, IntToF(2)), Vec3(0, 0, IntToF(-2)), Vec3(0, 0, 0) }

\* NDC positions of the three vertices: a triangle inside the viewport and
\* one with a vertex on x = 1.
NdcPlacements ==
    { << Vec3(-FOne, -FOne, FOne), Vec3(0, HalfF, FOne), Vec3(HalfF, -FOne, FOne) >>,
      << Vec3(FOne, 0, FOne), Vec3(0, HalfF, FOne), Vec3(-FOne, -FOne, FOne) >> }

InitLight ==
    /\ buffer = NewBuffer(RWidth, RHeight, BytesPerPixel)
    /\ calls = <<>>
    /\ last = [op |-> "new"]
    /\ mesh = NewMesh
    /\ demo = NoDemo

\* One frame: the mesh is rendered into a cleared display buffer.
DoRender ==
    /\ ~buffer.panicked
    /\ buffer = Clear(buffer)
    /\ \E eye \in Eyes, ndc \in NdcPlacements :
          \E r \in {MeshRender(mesh, eye, ndc, buffer)} :
              /\ buffer' = r.buf
              /\ last' = [op |-> "render", eye |-> eye, ndc |-> ndc,
                          drawn |-> r.drawn, before |-> buffer]
    /\ UNCHANGED <<calls, mesh, demo>>

NextLight == DoPush \/ DoRender

SpecLight == InitLight /\ [][NextLight]_vars

(***************************************************************************)
(* Faces of a mesh transformed by 4x4 matrices                             *)
(***************************************************************************)
\* Upper-left 3x3 blocks: the scalings by 0, 1 and 2 along x and y (and by 2
\* along z), a scaling by 1/2, a shear, a permutation of the axes, and two
\* matrices with linearly dependent rows.
DiagonalBlocks ==
    { << <<IntToF(a), 0, 0>>, <<0, IntToF(b), 0>>, <<0, 0, IntToF(2)>> >> : a, b \in 0..2 }

OtherBlocks ==
    { << <<HalfF, 0, 0>>, <<0, HalfF, 0>>, <<0, 0, HalfF>> >>,
      << <<FOne, FOne, 0>>, <<0, FOne, 0>>, <<0, HalfF, FOne>> >>,
      << <<0, FOne, 0>>, <<0, 0, FOne>>, <<FOne, 0, 0>> >>,
      << <<FOne, IntToF(2), FOne>>, <<FOne, IntToF(2), FOne>>, <<FOne, IntToF(2), FOne>> >>,
      << <<FOne, IntToF(2), IntToF(3)>>, <<IntToF(2), IntToF(4), IntToF(6)>>, <<0, FOne, FOne>> >> }

TransformColumns == { Vec3(0, 0, 0), Vec3(FOne, IntToF(-2), HalfF) }

\* The affine 4x4 matrix with upper-left block b and last column t.
Affine(b, t) ==
    << RowVector4(b[1][1], b[1][2], b[1][3], t.x),
       RowVector4(b[2][1], b[2][2], b[2][3], t.y),
       RowVector4(b[3][1], b[3][2], b[3][3], t.z),
       RowVector4(0, 0, 0, FOne) >>

TransformMatrices ==
    { Affine(b, t) : b \in DiagonalBlocks \cup OtherBlocks, t \in TransformColumns }

InitTransform ==
    /\ buffer = NewBuffer(RWidth, RHeight, BytesPerPixel)
    /\ calls = <<>>
    /\ last = [op |-> "new"]
    /\ mesh = NewMesh
    /\ demo = NoDemo

\* face.transform(m) on a face of the mesh; the expect() of a failed
\* inversion ends the program.
DoTransform ==
    /\ ~buffer.panicked
    /\ Len(calls) < MaxOps
    /\ calls' = Append(calls, [op |-> "transform"])
    /\ \E i \in 1..Len(mesh.faces), m \in TransformMatrices :
          \E r \in {FaceTransform(mesh.faces[i], m)} :
              /\ buffer' = [buffer EXCEPT !.panicked = ~r.ok]
              /\ last' = [op |-> "transform", index |-> i, face |-> mesh.faces[i],
                          m |-> m, out |-> r]
    /\ UNCHANGED <<mesh, demo>>

NextTransform == DoPush \/ DoTransform

SpecTransform == InitTransform /\ [][NextTransform]_vars

(***************************************************************************)
(* The frame loop of the demo program                                      *)
(***************************************************************************)
\* The raster-space vertices of the polygons of the mesh, as project_vertex
\* yields them for some position of the eye: a triangle inside the window,
\* one with a vertex on the right and upper edge of the window, and two
\* polygons with a common edge.
Projections ==
    { << <<Vec2(0, FOne), Vec2(IntToF(3), FOne), Vec2(FOne, IntToF(3))>> >>,
      << <<Vec2(FOne, FOne), Vec2(IntToF(WIN_WIDTH), IntToF(WIN_HEIGHT)), Vec2(IntToF(3), FOne)>> >>,
      << <<Vec2(0, IntToF(2)), Vec2(IntToF(3), IntToF(2)), Vec2(IntToF(3), 0)>>,
         <<Vec2(0, IntToF(2)), Vec2(IntToF(3), IntToF(2)), Vec2(0, IntToF(3))>> >> }

EventQueues == UNION {[1..n -> Events] : n \in 0..MaxEvents}

\* main() up to `loop`: nothing is displayed yet, the eye is at the origin
\* and at rest.
InitFrame ==
    /\ buffer = NewBuffer(RWidth, RHeight, BytesPerPixel)
    /\ calls = <<>>
    /\ last = [op |-> "new"]
    /\ mesh = NewMesh
    /\ demo = [pc |-> "loop", pixels |-> ZeroedPixels, window |-> <<>>,
               vel |-> [x |-> 0, y |-> 0, z |-> 0], eye_pos |-> [x |-> 0, y |-> 0, z |-> 0]]

\* The top of the loop body: a new, zeroed display_buffer.
FrameBegin ==
    /\ demo.pc = "loop"
    /\ demo' = [demo EXCEPT !.pc = "events", !.pixels = ZeroedPixels]
    /\ last' = [op |-> "begin", window |-> demo.window]
    /\ UNCHANGED <<buffer, calls, mesh>>

\* The loop over the pending events: a quit event returns from main().
FrameEvents ==
    /\ demo.pc = "events"
    /\ \E events \in EventQueues :
          \E h \in {HandleEvents(events, demo.vel)} :
              /\ demo' = [demo EXCEPT !.pc = IF h.quit THEN "done" ELSE "move", !.vel = h.vel]
              /\ last' = [op |-> IF h.quit THEN "quit" ELSE "events", window |-> last.window]
    /\ UNCHANGED <<buffer, calls, mesh>>

\* eye_pos = eye_pos + vel * (1.0 / FPS), counted in steps of 1/FPS, and
\* render_mesh(&cube, eye_pos, &mut display_buffer).
FrameRender ==
    /\ demo.pc = "move"
    /\ \A c \in {"x", "y", "z"} : Abs(demo.eye_pos[c] + demo.vel[c]) <= MaxEye
    /\ \E polys \in Projections :
          \E r \in {RenderMesh(polys, demo.pixels)} :
              /\ demo' = [demo EXCEPT !.pc = "present",
                                      !.eye_pos = [c \in {"x", "y", "z"} |-> demo.eye_pos[c] + demo.vel[c]],
                                      !.pixels = r]
              /\ last' = [op |-> "render", before |-> demo.pixels, rendered |-> r,
                          window |-> last.window]
    /\ UNCHANGED <<buffer, calls, mesh>>

\* The end of the loop body: the pixels are handed to the window when
\* clock.elapsed_time() is above 1/FPS, and the clock is restarted.
FramePresent ==
    /\ demo.pc = "present"
    /\ \E late \in BOOLEAN :
          /\ demo' = [demo EXCEPT !.pc = "loop", !.window = Present(demo.window, demo.pixels, late)]
          /\ last' = [op |-> "present", late |-> late, before |-> last.before,
                      rendered |-> last.rendered, window |-> last.window]
    /\ UNCHANGED <<buffer, calls, mesh>>

NextFrame == FrameBegin \/ FrameEvents \/ FrameRender \/ FramePresent

SpecFrame == InitFrame /\ [][NextFrame]_vars

(***************************************************************************)
(* Matrices built by identity and new, and multiplied by scalars           *)
(***************************************************************************)
\* The scalars: 0, 1, 2, 3, -1/2, +inf and NaN.
Scalars == {0, FOne, IntToF(2), IntToF(3), -HalfF, FInf, FNaN}

InitMatrix ==
    /\ buffer = NewBuffer(RWidth, RHeight, BytesPerPixel)
    /\ calls = <<>>
    /\ last = [op |-> "new"]
    /\ mesh = NewMesh
    /\ demo = NoDemo

\* let m = Matrix::identity(dim)
DoIdentity ==
    /\ calls = <<>>
    /\ \E dim \in 0..MaxDim :
          /\ last' = [op |-> "identity", dim |-> dim, out |-> MatrixIdentity(dim)]
          /\ calls' = <<[op |-> "identity", arg |-> dim]>>
    /\ UNCHANGED <<buffer, mesh, demo>>

\* let m = Matrix::new(cols, rows)
DoMatrixNew ==
    /\ calls = <<>>
    /\ \E cols \in 0..MaxDim, rows \in 0..MaxDim :
          /\ last' = [op |-> "matrix_new", out |-> MatrixNew(cols, rows)]
          /\ calls' = <<[op |-> "matrix_new", arg |-> <<cols, rows>>]>>
    /\ UNCHANGED <<buffer, mesh, demo>>

\* let m = m * s
DoMatrixMul ==
    /\ calls # <<>>
    /\ Len(calls) < MaxOps
    /\ \E s \in Scalars :
          /\ last' = [op |-> "mul", m |-> last.out, s |-> s, out |-> MatrixMul(last.out, s)]
          /\ calls' = Append(calls, [op |-> "mul", arg |-> s])
    /\ UNCHANGED <<buffer, mesh, demo>>

NextMatrix == DoIdentity \/ DoMatrixNew \/ DoMatrixMul

SpecMatrix == InitMatrix /\ [][NextMatrix]_vars

(***************************************************************************)
(* interpolate applied to the values the rasterizer hands it               *)
(***************************************************************************)
\* The fill functions call interpolate with rows (x0, x1) and depths (y0,
\* y1) of usize vertices cast to f32: whole numbers.
InterpolateRows == {IntToF(k) : k \in 0..MaxRow}
InterpolateDepths == {IntToF(k) : k \in 0..MaxDepth}

\* The abscissas: the rows and the points halfway between them.
Abscissas == {k * HalfF : k \in 0..(2 * MaxRow)}

\* The arguments of one call.
InitInterpolate ==
    /\ buffer = NewBuffer(RWidth, RHeight, BytesPerPixel)
    /\ calls = <<>>
    /\ \E x \in Abscissas, y1 \in InterpolateDepths, y0 \in InterpolateDepths,
             x1 \in InterpolateRows, x0 \in InterpolateRows :
          last = [op |-> "args", x |-> x, y1 |-> y1, y0 |-> y0, x1 |-> x1, x0 |-> x0]
    /\ mesh = NewMesh
    /\ demo = NoDemo

\* The call.
DoInterpolate ==
    /\ last.op = "args"
    /\ last' = [op |-> "interpolate", x |-> last.x, y1 |-> last.y1, y0 |-> last.y0,
                x1 |-> last.x1, x0 |-> last.x0,
                out |-> Interpolate(last.x, last.y1, last.y0, last.x1, last.x0)]
    /\ UNCHANGED <<buffer, calls, mesh, demo>>

NextInterpolate == DoInterpolate

SpecInterpolate == InitInterpolate /\ [][NextInterpolate]_vars

(***************************************************************************)
(* set_pixel of the demo program on one frame's display_buffer             *)
(***************************************************************************)
\* A colour with four different bytes (0x04030201) next to 0xFFFFFFFF.
DemoColors == {White, <<1, 2, 3, 4>>}

\* The coordinates draw_line hands to set_pixel: the middle of a segment
\* passes 0 <= x <= WIN_WIDTH and 0 <= y <= WIN_HEIGHT before it is cast.
DemoXs == 0..WIN_WIDTH
DemoYs == 0..WIN_HEIGHT

\* A frame's display_buffer before anything is drawn.
InitPixel ==
    /\ buffer = NewBuffer(RWidth, RHeight, BytesPerPixel)
    /\ calls = <<>>
    /\ last = [op |-> "new"]
    /\ mesh = NewMesh
    /\ demo = [pc |-> "draw", pixels |-> ZeroedPixels]

\* One call of set_pixel on the display_buffer.
DoDemoSetPixel ==
    /\ demo.pc = "draw"
    /\ Len(calls) < MaxCalls
    /\ \E x \in DemoXs, y \in DemoYs, color \in DemoColors :
          /\ demo' = [demo EXCEPT !.pixels = DemoSetPixel(x, y, color, demo.pixels)]
          /\ calls' = Append(calls, [op |-> "set_pixel"])
          /\ last' = [op |-> "set_pixel", x |-> x, y |-> y, color |-> color,
                      before |-> demo.pixels]
    /\ UNCHANGED <<buffer, mesh>>

\* The next pass of the loop: display_buffer is zeroed again.
DoDemoZero ==
    /\ demo.pc = "draw"
    /\ calls # <<>>
    /\ demo' = [demo EXCEPT !.pixels = ZeroedPixels]
    /\ calls' = <<>>
    /\ last' = [op |-> "zero"]
    /\ UNCHANGED <<buffer, mesh>>

NextPixel == DoDemoSetPixel \/ DoDemoZero

SpecPixel == InitPixel /\ [][NextPixel]_vars

(***************************************************************************)
(* Properties of DisplayBuffer (SpecBuffer)                                *)
(***************************************************************************)
Black == Color(0, 0, 0, 0)

\* The four colour bytes stored for the pixel with buffer index i.
ColorAt(buf, i) ==
    Color(buf.data[i * buf.bpp], buf.data[i * buf.bpp + 1],
          buf.data[i * buf.bpp + 2], buf.data[i * buf.bpp + 3])

InRange(buf, x, y) == x < buf.width /\ y < buf.height

\* The calls of the history made at pixel (x, y), in call order.
CallsAt(x, y) == SelectSeq(calls, LAMBDA c : c.x = x /\ c.y = y)

\* The calls of cs whose z was strictly greater than the depth stored when
\* they were made: z above the sentinel and above every earlier z.
Accepted(cs) ==
    {i \in 1..Len(cs) :
        /\ FLt(F32_MIN, cs[i].z)
        /\ \A j \in 1..(i - 1) : IsNaN(cs[j].z) \/ FLt(cs[j].z, cs[i].z)}

MaxAccepted(cs) ==
    CHOOSE i \in Accepted(cs) : \A j \in Accepted(cs) : FLe(cs[j].z, cs[i].z)

\* C1: after any sequence of set_pixel calls at one in-range (x,y) since
\* new() or clear(), the colour and depth stored for that pixel are those of
\* the call with the maximum z among the calls whose z was strictly greater
\* than the stored depth at call time (black and the sentinel when there is
\* none); equal or smaller z never replaces the pixel.
C1_DepthTestMonotone ==
    \A x \in 0..(buffer.width - 1), y \in 0..(buffer.height - 1) :
        LET cs == CallsAt(x, y)
            i == PixelIndex(buffer, x, y)
        IN  IF Accepted(cs) = {}
            THEN ColorAt(buffer, i) = Black /\ buffer.z_buffer[i] = F32_MIN
            ELSE /\ ColorAt(buffer, i) = cs[MaxAccepted(cs)].color
                 /\ buffer.z_buffer[i] = cs[MaxAccepted(cs)].z

\* A pixel called twice, the second call with an equal or smaller finite z and
\* another colour: the first call's colour is kept.
C1_Witness ==
    \E x \in 0..(buffer.width - 1), y \in 0..(buffer.height - 1) :
        LET cs == CallsAt(x, y)
        IN  /\ Len(cs) >= 2
            /\ FLt(F32_MIN, cs[1].z)
            /\ FLe(cs[2].z, cs[1].z)
            /\ cs[2].color # cs[1].color
            /\ ColorAt(buffer, PixelIndex(buffer, x, y)) = cs[1].color

\* A step that makes one set_pixel call.
IsSetPixelStep == Len(calls') = Len(calls) + 1

\* C2: set_pixel(x,y,z,color) with x < width and y < height changes at most
\* the four colour bytes and the depth cell of the pixel with row-major index
\* (height - 1 - y) * width + x; every other byte and depth cell is unchanged,
\* and distinct (x,y) map to distinct indices.
C2_SetPixelFrame ==
    [][IsSetPixelStep =>
        LET c == calls'[Len(calls')]
            i == (buffer.height - 1 - c.y) * buffer.width + c.x
        IN  InRange(buffer, c.x, c.y) =>
              /\ DOMAIN buffer'.data = DOMAIN buffer.data
              /\ DOMAIN buffer'.z_buffer = DOMAIN buffer.z_buffer
              /\ \A k \in DOMAIN buffer.data :
                    k \notin (i * buffer.bpp)..(i * buffer.bpp + 3)
                        => buffer'.data[k] = buffer.data[k]
              /\ \A k \in DOMAIN buffer.z_buffer :
                    k # i => buffer'.z_buffer[k] = buffer.z_buffer[k]
              /\ \A x1, x2 \in 0..(buffer.width - 1), y1, y2 \in 0..(buffer.height - 1) :
                    <<x1, y1>> # <<x2, y2>>
                        => PixelIndex(buffer, x1, y1) # PixelIndex(buffer, x2, y2)
      ]_vars

\* A written call at the bottom row y = 0: its colour is in the last stored row.
C2_Witness ==
    /\ last.op = "set_pixel"
    /\ last.y = 0 /\ last.x < buffer.width
    /\ FLt(F32_MIN, last.z)
    /\ ColorAt(buffer, (buffer.height - 1) * buffer.width + last.x) = last.color
    /\ buffer.z_buffer[(buffer.height - 1) * buffer.width + last.x] = last.z

\* C3: set_pixel panics whenever x >= width or y >= height, and then no
\* colour byte and no depth cell has been modified.
C3_SetPixelOutOfRange ==
    [][IsSetPixelStep =>
        LET c == calls'[Len(calls')]
        IN  (c.x >= buffer.width \/ c.y >= buffer.height) =>
              /\ buffer'.panicked
              /\ buffer'.data = buffer.data
              /\ buffer'.z_buffer = buffer.z_buffer
      ]_vars

\* A panicked out-of-range call made on a buffer that holds a written pixel.
C3_Witness ==
    /\ buffer.panicked
    /\ last.op = "set_pixel"
    /\ (last.x >= buffer.width \/ last.y >= buffer.height)
    /\ \E k \in DOMAIN buffer.data : buffer.data[k] # 0

\* C4: after clear(), whatever calls preceded it, every colour byte is 0 and
\* every depth cell holds the sentinel, width/height/bpp and both array
\* lengths are unchanged, and a next set_pixel at any in-range pixel with z
\* greater than the sentinel is written.
C4_ClearResets ==
    [][/\ last'.op = "clear" =>
            /\ \A k \in DOMAIN buffer'.data : buffer'.data[k] = 0
            /\ \A k \in DOMAIN buffer'.z_buffer : buffer'.z_buffer[k] = F32_MIN
            /\ buffer'.width = buffer.width
            /\ buffer'.height = buffer.height
            /\ buffer'.bpp = buffer.bpp
            /\ DOMAIN buffer'.data = 0..(buffer.width * buffer.height * buffer.bpp - 1)
            /\ DOMAIN buffer'.z_buffer = 0..(buffer.width * buffer.height - 1)
            /\ DOMAIN buffer'.data = DOMAIN buffer.data
            /\ DOMAIN buffer'.z_buffer = DOMAIN buffer.z_buffer
       /\ (last.op = "clear" /\ IsSetPixelStep) =>
            LET c == calls'[Len(calls')]
                i == PixelIndex(buffer, c.x, c.y)
            IN  (InRange(buffer, c.x, c.y) /\ FLt(F32_MIN, c.z)) =>
                    /\ ~buffer'.panicked
                    /\ ColorAt(buffer', i) = c.color
                    /\ buffer'.z_buffer[i] = c.z
      ]_vars

\* A clear() of a buffer that held written pixels.
C4_Witness == last.op = "clear" /\ last.n > 0 /\ last.dirty

(***************************************************************************)
(* Properties of the rasterizer (SpecRaster, SpecLine)                     *)
(***************************************************************************)
\* A raster coordinate of v is at or beyond the buffer's width or height.
Beyond(v, buf) == FLe(IntToF(buf.width), v.x) \/ FLe(IntToF(buf.height), v.y)

\* v lies inside the buffer.
Inside(v, buf) ==
    /\ FLe(0, v.x) /\ FLt(v.x, IntToF(buf.width))
    /\ FLe(0, v.y) /\ FLt(v.y, IntToF(buf.height))

\* Some colour byte of the pixel with buffer index i is not 0.
NonZeroAt(buf, i) == ColorAt(buf, i) # Black

IsEmpty(buf) ==
    /\ \A k \in DOMAIN buf.data : buf.data[k] = 0
    /\ \A k \in DOMAIN buf.z_buffer : buf.z_buffer[k] = F32_MIN

IsTriangleStep == Cleared /\ last'.op = "triangle"
IsLineStep == Cleared /\ last'.op = "line"

\* C5: rendering a filled triangle of which any vertex has raster x >= width
\* or raster y >= height leaves the colour bytes and the depth cells
\* unmodified (and does not fail).
C5_OutOfBoundsDrop ==
    [][IsTriangleStep =>
        LET t == last'.t
        IN  (Beyond(t.v0, buffer) \/ Beyond(t.v1, buffer) \/ Beyond(t.v2, buffer))
                => buffer' = buffer
      ]_vars

\* A triangle with two vertices inside the buffer, on different rows and
\* columns, and the third beyond its width, rendered without any write.
C5_Witness ==
    /\ last.op = "triangle"
    /\ Inside(last.t.v0, buffer) /\ Inside(last.t.v2, buffer)
    /\ last.t.v0.y > last.t.v2.y /\ last.t.v0.x # last.t.v2.x
    /\ Beyond(last.t.v1, buffer)
    /\ IsEmpty(buffer) /\ ~buffer.panicked

\* C6: whatever the raster coordinates of a triangle or a line segment
\* (inside the buffer, beyond it, negative), rendering it never reaches the
\* out-of-range failure of set_pixel.
C6_NeverPanics == ~buffer.panicked

\* The same for triangles alone.
C6_TrianglesNeverPanic == last.op = "triangle" => ~buffer.panicked

\* C7: a line segment with both endpoints inside the buffer, a non-zero
\* colour and a depth above the sentinel, drawn into an empty buffer, sets a
\* non-zero pixel at the buffer index of its start coordinate and at the
\* buffer index of its end coordinate.
C7_LineEndpoints ==
    [][IsLineStep =>
        LET l == last'.l
            start == (buffer.height - 1 - FloatToI32(l.v0.y)) * buffer.width + FloatToI32(l.v0.x)
            end == (buffer.height - 1 - FloatToI32(l.v1.y)) * buffer.width + FloatToI32(l.v1.x)
        IN  (/\ IsEmpty(buffer)
             /\ Inside(l.v0, buffer) /\ Inside(l.v1, buffer)
             /\ last'.color # Black
             /\ FLt(F32_MIN, l.v0.z))
                => /\ ~buffer'.panicked
                   /\ NonZeroAt(buffer', start)
                   /\ NonZeroAt(buffer', end)
      ]_vars

\* The line of the repository's test, from (0,1) to (6,4), drawn: the pixel
\* of its start coordinate is set.
C7_Witness ==
    /\ last.op = "line"
    /\ last.l.v0.x = IntToF(0) /\ last.l.v0.y = IntToF(1)
    /\ last.l.v1.x = IntToF(6) /\ last.l.v1.y = IntToF(4)
    /\ FLt(F32_MIN, last.l.v0.z)
    /\ NonZeroAt(buffer, (buffer.height - 1 - 1) * buffer.width + 0)
    /\ NonZeroAt(buffer, (buffer.height - 1 - 4) * buffer.width + 6)

(***************************************************************************)
(* Properties of Mesh::translate and Mesh::rotate                          *)
(***************************************************************************)
Component(v, c) == IF c = "x" THEN v.x ELSE IF c = "y" THEN v.y ELSE v.z

\* The arguments of the calls of one operation, in call order.
ArgsOf(cs, op) == SelectSeq(cs, LAMBDA call : call.op = op)

\* The component c of the arguments added one after the other on f32,
\* starting from 0.
RECURSIVE Accumulated(_, _)
Accumulated(args, c) ==
    IF args = <<>> THEN 0
    ELSE FAdd(Accumulated(SubSeq(args, 1, Len(args) - 1), c),
              Component(args[Len(args)].arg, c))

\* The component c of the arguments added as real numbers.
RECURSIVE ExactSum(_, _)
ExactSum(args, c) ==
    IF args = <<>> THEN 0
    ELSE ExactSum(Tail(args), c) + Component(Head(args).arg, c)

\* Every partial sum, in call order, is an f32.
Representable(args, c) ==
    \A n \in 1..Len(args) :
        LET s == ExactSum(SubSeq(args, 1, n), c) IN FRound(s) = s

MeshComponents == {"x", "y", "z"}

\* Every component of every argument is finite.
FiniteArgs(args) ==
    \A n \in 1..Len(args), c \in MeshComponents : IsFinite(Component(args[n].arg, c))

BrightnessOf(i) ==
    LET fw == FaceTransform(mesh.faces[i], ModelMatrix(mesh)).face
    IN  <<Brightness(last.eye, fw.v0), Brightness(last.eye, fw.v1), Brightness(last.eye, fw.v2)>>

SomePositive(bs) == \E j \in 1..3 : ~IsNaN(bs[j]) /\ bs[j] > 0
AllAtMostOne(bs) == \A j \in 1..3 : ~IsNaN(bs[j]) /\ bs[j] <= FOne

\* The faces the last render call handed to the rasterizer.
DrawnFaces == {last.drawn[k].index : k \in 1..Len(last.drawn)}

\* The faces of the mesh with a brightness above 1.0 or NaN.
Overbright == {i \in 1..Len(mesh.faces) : ~AllAtMostOne(BrightnessOf(i))}

\* The display buffer after the faces ds, in order, are rasterized into buf.
RECURSIVE Rasterized(_, _)
Rasterized(ds, buf) ==
    IF ds = <<>> THEN buf
    ELSE FaceRender(ds[Len(ds)].face, Rasterized(SubSeq(ds, 1, Len(ds) - 1), buf))

SamePixels(a, b) == a.data = b.data /\ a.z_buffer = b.z_buffer

\* C8 as stated: a face is rasterized exactly when the brightness of at least
\* one of its vertices is strictly positive; a face with no positive
\* brightness causes no write.
C8_LitFacesRasterized ==
    last.op = "render" =>
        /\ \A i \in 1..Len(mesh.faces) : i \in DrawnFaces <=> SomePositive(BrightnessOf(i))
        /\ SamePixels(buffer, Rasterized(last.drawn, last.before))

\* What render does, the assertions included (a companion of C8, not its
\* statement): while no face of the mesh has a brightness above 1.0 or NaN, a
\* face is rasterized exactly when the brightness of at least one of its
\* vertices is strictly positive; the first face with a brightness above 1.0
\* or NaN makes render panic: it and the faces after it are not rasterized.
\* The faces are rasterized in mesh order, and a face with no positive
\* brightness causes no write and does not stop the faces after it.
C8_LitFacesRasterizedUnlessOverbright ==
    last.op = "render" =>
        /\ \A i \in 1..Len(mesh.faces) :
              i \in DrawnFaces <=> /\ SomePositive(BrightnessOf(i))
                                   /\ \A k \in Overbright : i < k
        /\ \A k \in 1..Len(last.drawn) - 1 : last.drawn[k].index < last.drawn[k + 1].index
        /\ buffer.panicked <=> Overbright # {}
        /\ SamePixels(buffer, Rasterized(last.drawn, last.before))
        /\ DrawnFaces = {} => SamePixels(buffer, last.before)

\* A mesh whose first face is turned away from the eye and whose second face
\* is lit: the second face alone is rasterized, and pixels are written.
C8_Witness ==
    /\ last.op = "render"
    /\ Len(mesh.faces) = 2
    /\ ~SomePositive(BrightnessOf(1))
    /\ DrawnFaces = {2}
    /\ ~buffer.panicked
    /\ IsEmpty(last.before)
    /\ ~IsEmpty(buffer)

\* The colour Mesh::render hands to the rasterizer for vertex j of the k-th
\* drawn face, and the colour of that vertex in the mesh.
DrawnVertex(k, j) ==
    LET f == last.drawn[k].face IN <<f.v0, f.v1, f.v2>>[j]
MeshVertex(k, j) ==
    LET f == mesh.faces[last.drawn[k].index] IN <<f.v0, f.v1, f.v2>>[j]

\* floor(channel * b) for a brightness b in (0, 1], on the reals.
FloorScaled(channel, b) == (channel * b) \div FOne

RgbScaled(k, j) ==
    LET b == last.drawn[k].brightness[j]
        c == MeshVertex(k, j).color
        d == DrawnVertex(k, j).color
    IN  /\ d.r = FloorScaled(c.r, b)
        /\ d.g = FloorScaled(c.g, b)
        /\ d.b = FloorScaled(c.b, b)

\* C9 as stated: for every drawn vertex with a positive brightness b, R, G
\* and B are floor(channel * b) and alpha is the alpha of the mesh vertex.
C9_RgbScaledAlphaKept ==
    last.op = "render" =>
        \A k \in 1..Len(last.drawn), j \in 1..3 :
            last.drawn[k].brightness[j] > 0 =>
                /\ RgbScaled(k, j)
                /\ DrawnVertex(k, j).color.a = MeshVertex(k, j).color.a

\* The R, G, B part of C9 alone, and what the code does with alpha.
C9_RgbAndAlphaScaled ==
    last.op = "render" =>
        \A k \in 1..Len(last.drawn), j \in 1..3 :
            last.drawn[k].brightness[j] > 0 =>
                /\ RgbScaled(k, j)
                /\ DrawnVertex(k, j).color.a
                      = FloorScaled(MeshVertex(k, j).color.a, last.drawn[k].brightness[j])

(***************************************************************************)
(* Properties of Face::transform (SpecTransform)                           *)
(***************************************************************************)
\* The matrices and positions of SpecTransform are multiples of 1/2; Halves
\* is the number of halves in such a value.
Halves(a) == a \div HalfF

\* The determinant of a 3x3 block in eighths, in exact integer arithmetic.
ExactDeterminant(b) ==
    LET h(i, j) == Halves(b[i][j])
    IN    h(1, 1) * (h(2, 2) * h(3, 3) - h(3, 2) * h(2, 3))
        - h(1, 2) * (h(2, 1) * h(3, 3) - h(3, 1) * h(2, 3))
        + h(1, 3) * (h(2, 1) * h(3, 2) - h(3, 1) * h(2, 2))

\* Row i of m * p in quarters, in exact integer arithmetic.
ExactRow(m, p, i) ==
    Halves(m[i][1]) * Halves(p.x) + Halves(m[i][2]) * Halves(p.y)
        + Halves(m[i][3]) * Halves(p.z) + Halves(m[i][4]) * Halves(p.w)

ExactProduct(m, p) ==
    Vec4(ExactRow(m, p, 1) * (FOne \div 4), ExactRow(m, p, 2) * (FOne \div 4),
         ExactRow(m, p, 3) * (FOne \div 4), ExactRow(m, p, 4) * (FOne \div 4))

TransformedVertex(vin, vout, m) ==
    /\ vout.position = ExactProduct(m, vin.position)
    /\ vout.color = vin.color

\* C11: transform(m) with a matrix whose upper-left 3x3 block has determinant
\* 0 ends in the fatal error and returns no face; with any other matrix it
\* returns a face whose three positions are m * position and whose colours
\* are those of the input, and the input face of the mesh is as it was.
C11_TransformSingularOrMapped ==
    last.op = "transform" =>
        IF ExactDeterminant(Upper3(last.m)) = 0
        THEN /\ buffer.panicked
             /\ ~last.out.ok
             /\ "face" \notin DOMAIN last.out
        ELSE /\ ~buffer.panicked
             /\ last.out.ok
             /\ TransformedVertex(last.face.v0, last.out.face.v0, last.m)
             /\ TransformedVertex(last.face.v1, last.out.face.v1, last.m)
             /\ TransformedVertex(last.face.v2, last.out.face.v2, last.m)
             /\ mesh.faces[last.index] = last.face

\* A face has been moved by a matrix that shears and translates.
C11_Witness ==
    /\ last.op = "transform"
    /\ last.out.ok
    /\ last.m[1][2] # 0
    /\ last.m[1][4] # 0
    /\ last.out.face.v1.position # last.face.v1.position
    /\ last.out.face.v1.color = LightB

(***************************************************************************)
(* Properties of the viewport transform (SpecLight)                        *)
(***************************************************************************)
InsideNdc(p) == FLe(-FOne, p.x) /\ FLe(p.x, FOne) /\ FLe(-FOne, p.y) /\ FLe(p.y, FOne)

\* The triangle the k-th drawn face hands to the rasterizer.
DrawnTriangle(k) ==
    Triangle(DrawnVertex(k, 1).position, DrawnVertex(k, 2).position, DrawnVertex(k, 3).position)

\* C12 as stated: NDC positions with x and y in [-1, 1] are mapped to raster
\* coordinates in [0, width-1] x [0, height-1], and a triangle whose three
\* NDC positions are inside the square passes the bounds check of the
\* rasterizer.
C12_ViewportInsideRaster ==
    last.op = "render" =>
        \A k \in 1..Len(last.drawn) :
            (\A j \in 1..3 : InsideNdc(last.ndc[j])) =>
                /\ \A j \in 1..3 :
                      LET p == DrawnVertex(k, j).position
                      IN  /\ FLe(0, p.x) /\ FLe(p.x, IntToF(last.before.width - 1))
                          /\ FLe(0, p.y) /\ FLe(p.y, IntToF(last.before.height - 1))
                /\ TriangleFits(DrawnTriangle(k), last.before)

\* What the transform does (a companion of C12, not its statement): NDC
\* positions inside the square are mapped into [0, width] x [0, height], the
\* upper ends included, and the triangle passes the bounds check exactly when
\* no vertex is mapped to x = width or beyond, or to y = height or beyond.
C12_ViewportInsideClosedRaster ==
    last.op = "render" =>
        \A k \in 1..Len(last.drawn) :
            (\A j \in 1..3 : InsideNdc(last.ndc[j])) =>
                /\ \A j \in 1..3 :
                      LET p == DrawnVertex(k, j).position
                      IN  /\ FLe(0, p.x) /\ FLe(p.x, IntToF(last.before.width))
                          /\ FLe(0, p.y) /\ FLe(p.y, IntToF(last.before.height))
                /\ TriangleFits(DrawnTriangle(k), last.before)
                       <=> \A j \in 1..3 :
                              /\ FLt(DrawnVertex(k, j).position.x, IntToF(last.before.width))
                              /\ FLt(DrawnVertex(k, j).position.y, IntToF(last.before.height))

(***************************************************************************)
(* Properties of the frame loop (SpecFrame)                                *)
(***************************************************************************)
AllZero(pixels) == \A i \in DOMAIN pixels : pixels[i] = 0

\* What holds of every iteration whatever the clock says: it starts from a
\* zeroed array, the mesh is rendered into that zeroed array, and a quit
\* event ends the loop with nothing rendered and the window as it was.
FrameStartsZeroedAndQuitsEarly ==
    /\ demo.pc \in {"events", "move", "done"} => AllZero(demo.pixels)
    /\ last.op \in {"render", "present"} => AllZero(last.before) /\ ~AllZero(last.rendered)
    /\ last.op = "quit" <=> demo.pc = "done"
    /\ last.op = "quit" => demo.window = last.window

\* C13 as stated: every iteration that does not quit starts from zeroed
\* pixels, renders the mesh and hands the rendered pixels to the window
\* before the next iteration begins, so that no rendered frame is skipped; a
\* quit event ends the loop before anything is rendered or displayed.
C13_EveryFrameHandedOff ==
    /\ FrameStartsZeroedAndQuitsEarly
    /\ last.op = "present" => demo.pc = "loop" /\ demo.window = last.rendered

\* C13, amended: the rendered pixels are handed to the window before the
\* next iteration begins when the clock shows more than 1/FPS at the end of
\* the iteration; otherwise the rendered frame is skipped and the window
\* keeps what it displayed when the iteration began.
C13_FrameHandedOffWhenClockElapsed ==
    /\ FrameStartsZeroedAndQuitsEarly
    /\ last.op = "present" =>
          /\ demo.pc = "loop"
          /\ demo.window = IF last.late THEN last.rendered ELSE last.window

\* A frame that differs from the one on display has been rendered and
\* skipped, the clock not having reached 1/FPS.
C13_Witness ==
    /\ last.op = "present"
    /\ ~last.late
    /\ last.window # <<>>
    /\ last.rendered # last.window
    /\ demo.window = last.window

(***************************************************************************)
(* Properties of Matrix (SpecMatrix)                                       *)
(***************************************************************************)
\* The element at column c and row r (both from 0) of a column-major matrix.
ElementAt(m, c, r) == m.data[c * m.rows + r]

\* C14: for n >= 1, identity(n) has n columns, n rows and n*n elements, and
\* its element at (column c, row r) is 1.0 when c = r and 0.0 otherwise.
C14_IdentityElements ==
    (last.op = "identity" /\ last.dim >= 1) =>
        /\ last.out.cols = last.dim
        /\ last.out.rows = last.dim
        /\ DOMAIN last.out.data = 0..(last.dim * last.dim - 1)
        /\ \A c \in 0..(last.dim - 1), r \in 0..(last.dim - 1) :
              ElementAt(last.out, c, r) = IF c = r THEN FOne ELSE 0

\* identity(3), the matrix of the unit test, has been built.
C14_Witness ==
    /\ last.op = "identity"
    /\ last.dim = 3
    /\ ElementAt(last.out, 1, 1) = FOne
    /\ ElementAt(last.out, 2, 1) = 0

C16_InterpolateIsLine ==
    (last.op = "interpolate" /\ last.x0 # last.x1) =>
        /\ last.x = last.x0 => last.out = last.y0
        /\ last.x = last.x1 => last.out = last.y1
        /\ 2 * last.x = last.x0 + last.x1 => 2 * last.out = last.y0 + last.y1

\* The call of the unit test: the line through (0, 0) and (2, 1) at x = 1.
C16_Witness ==
    /\ last.op = "interpolate"
    /\ last.x0 = 0 /\ last.y0 = 0
    /\ last.x1 = IntToF(2) /\ last.y1 = FOne
    /\ last.x = FOne
    /\ last.out = HalfF

(***************************************************************************)
(* Properties of the triangle split and the fills (SpecRaster)             *)
(***************************************************************************)
\* The buffer a triangle of SpecRaster is rendered into: a cleared one.
EmptyBuffer == NewBuffer(buffer.width, buffer.height, buffer.bpp)

\* The buffer after the fill functions of fills are run in order.
RECURSIVE RunFills(_, _, _)
RunFills(fills, color, buf) ==
    IF fills = <<>> THEN buf
    ELSE LET f == Head(fills)
         IN  RunFills(Tail(fills), color,
                      IF f.fill = "top_flat" THEN FillTopFlatTriangle(f.triangle, color, buf)
                      ELSE FillBottomFlatTriangle(f.triangle, color, buf))

\* p is at the height of v1 and, to within 2^-20, on the line through v0 and
\* v2 (the coordinates of SpecRaster are multiples of 1/2).
OnEdgeAtMiddle(p, t) ==
    LET n == (t.v0.y - t.v1.y) \div HalfF
        d == (t.v0.y - t.v2.y) \div HalfF
        exact == (t.v0.x \div 2^6) + (n * ((t.v2.x - t.v0.x) \div 2^6)) \div d
    IN  /\ p.y = t.v1.y
        /\ Abs(p.x \div 2^6 - exact) <= 1
        /\ Min(t.v0.x, t.v2.x) <= p.x /\ p.x <= Max(t.v0.x, t.v2.x)

\* C17: a triangle sorted by descending y that passes the bounds check and is
\* neither top-flat nor bottom-flat is filled as exactly two triangles, the
\* bottom-flat (v0, v1, p) and then the top-flat (v1, p, v2), where p is the
\* point of the edge v0-v2 at the height of v1; a top-flat or bottom-flat
\* triangle is filled by one fill of the triangle itself.
C17_SplitIntoTwoFlat ==
    (last.op = "triangle" /\ TriangleFits(last.t, buffer)) =>
        LET t == last.t
            fills == TriangleFills(t)
        IN  /\ buffer = RunFills(fills, last.color, EmptyBuffer)
            /\ IF IsTopFlat(t) \/ IsBottomFlat(t)
               THEN /\ Len(fills) = 1
                    /\ fills[1].triangle = t
                    /\ fills[1].fill = "top_flat" => IsTopFlat(t)
                    /\ fills[1].fill = "bottom_flat" => IsBottomFlat(t)
               ELSE /\ Len(fills) = 2
                    /\ fills[1].fill = "bottom_flat" /\ fills[2].fill = "top_flat"
                    /\ \E p \in {fills[1].triangle.v2} :
                          /\ OnEdgeAtMiddle(p, t)
                          /\ fills[1].triangle = Triangle(t.v0, t.v1, p)
                          /\ fills[2].triangle = Triangle(t.v1, p, t.v2)
                    /\ IsBottomFlat(fills[1].triangle)
                    /\ IsTopFlat(fills[2].triangle)

\* A triangle with its three vertices on different rows has been split and
\* both halves have written pixels: rows above and below the middle vertex.
C17_Witness ==
    /\ last.op = "triangle"
    /\ TriangleFits(last.t, buffer)
    /\ ~IsTopFlat(last.t) /\ ~IsBottomFlat(last.t)
    /\ last.t.v0.y = IntToF(3) /\ last.t.v1.y = IntToF(2) /\ last.t.v2.y = 0
    /\ MiddleVertex(last.t).x # last.t.v1.x
    /\ NonZeroAt(buffer, PixelIndex(buffer, FloatToUsize(last.t.v0.x), 3))
    /\ NonZeroAt(buffer, PixelIndex(buffer, FloatToUsize(last.t.v2.x), 0))
    /\ ~buffer.panicked

(***************************************************************************)
(* Properties of the Bresenham loop (SpecLine)                             *)
(***************************************************************************)
\* The pixels of buf with a colour byte that is not 0, as coordinates.
Painted(buf) ==
    {<<x, y>> \in (0..(buf.width - 1)) \X (0..(buf.height - 1)) :
        NonZeroAt(buf, PixelIndex(buf, x, y))}

Range(s) == {s[k] : k \in 1..Len(s)}

\* C18: for a line segment with whole-number endpoints inside the buffer the
\* loop ends, having visited max(|dx|, |dy|) + 1 pixels, the first the start
\* point and the last the end point; from one pixel to the next x moves by 0
\* or sx and y by 0 or sy, and neither coordinate moves away from the end
\* point.  The pixels visited are the pixels set in the buffer.
C18_BresenhamWalk ==
    (last.op = "line" /\ Inside(last.l.v0, buffer) /\ Inside(last.l.v1, buffer)) =>
        LET x1 == FloatToI32(last.l.v0.x)
            y1 == FloatToI32(last.l.v0.y)
            x2 == FloatToI32(last.l.v1.x)
            y2 == FloatToI32(last.l.v1.y)
            sx == IF x1 < x2 THEN 1 ELSE -1
            sy == IF y1 < y2 THEN 1 ELSE -1
            visits == LineTrace(last.l)
        IN  /\ ~buffer.panicked
            /\ Len(visits) = Max(Abs(x2 - x1), Abs(y2 - y1)) + 1
            /\ visits[1] = <<x1, y1>>
            /\ visits[Len(visits)] = <<x2, y2>>
            /\ \A k \in 1..(Len(visits) - 1) :
                  /\ visits[k + 1][1] - visits[k][1] \in {0, sx}
                  /\ visits[k + 1][2] - visits[k][2] \in {0, sy}
                  /\ Abs(x2 - visits[k + 1][1]) <= Abs(x2 - visits[k][1])
                  /\ Abs(y2 - visits[k + 1][2]) <= Abs(y2 - visits[k][2])
                  /\ visits[k + 1] # visits[k]
            /\ FLt(F32_MIN, last.l.v0.z) => Painted(buffer) = Range(visits)

\* The line of the repository's test, from (0,1) to (6,4), drawn in 7 pixels.
C18_Witness ==
    /\ last.op = "line"
    /\ last.l.v0.x = IntToF(0) /\ last.l.v0.y = IntToF(1)
    /\ last.l.v1.x = IntToF(6) /\ last.l.v1.y = IntToF(4)
    /\ FLt(F32_MIN, last.l.v0.z)
    /\ Len(LineTrace(last.l)) = 7
    /\ Cardinality(Painted(buffer)) = 7

(***************************************************************************)
(* Properties of the scanline fills (SpecRaster)                           *)
(***************************************************************************)
\* The buffer after the line segments of lines are rendered in order.
RECURSIVE RenderedLines(_, _, _)
RenderedLines(lines, color, buf) ==
    IF lines = <<>> THEN buf
    ELSE RenderedLines(Tail(lines), color, LineRender(Head(lines), color, buf))

\* The scan lines of all the fills of a triangle, in order.
RECURSIVE ScanLinesOf(_)
ScanLinesOf(fills) ==
    IF fills = <<>> THEN <<>> ELSE FillScanLines(Head(fills)) \o ScanLinesOf(Tail(fills))

\* A fill whose apex row is not the row of its flat edge.
HasHeight(f) == FlatVertices(f).apex.y # FlatVertices(f).left.y

\* The last step rendered a triangle with its three vertices inside the
\* buffer.
InsideTriangleRendered ==
    /\ last.op = "triangle"
    /\ ~buffer.panicked
    /\ Inside(last.t.v0, buffer) /\ Inside(last.t.v1, buffer) /\ Inside(last.t.v2, buffer)

\* The rendered triangle is flat, with an apex off its flat edge, and lies
\* inside the buffer.
FlatTriangleRendered ==
    /\ InsideTriangleRendered
    /\ IsTopFlat(last.t) \/ IsBottomFlat(last.t)
    /\ HasHeight(TriangleFills(last.t)[1])

\* d is, to within 2^-20, the depth at the given row of the edge from vertex
\* a to vertex b (usize vertices on different rows).
NearEdgeDepth(d, a, b, row) ==
    LET exact == a.z * 2^20 + ((row - a.y) * (b.z - a.z) * 2^20) \div (b.y - a.y)
    IN  Abs(d \div 2^6 - exact) <= 1

DepthAt(buf, x, y) == buf.z_buffer[PixelIndex(buf, x, y)]

\* C19 as stated: on every scan line of the fill of a flat triangle the depth
\* handed to set_pixel at the first pixel is the depth of the left edge at
\* that row, and the depth handed to set_pixel at the last pixel is the depth
\* of the right edge at that row.
C19_ScanLineEndDepths ==
    FlatTriangleRendered =>
        LET f == TriangleFills(last.t)[1]
            w == FlatVertices(f)
            lines == FillScanLines(f)
        IN  \A k \in 1..Len(lines) :
                LET row == FloatToI32(lines[k].v0.y)
                IN  /\ NearEdgeDepth(DepthAt(buffer, FloatToI32(lines[k].v0.x), row),
                                     w.apex, w.left, row)
                    /\ NearEdgeDepth(DepthAt(buffer, FloatToI32(lines[k].v1.x), row),
                                     w.apex, w.right, row)

\* What the fill does (a companion of C19, not its statement): every pixel
\* of a scan line, the last included, gets the depth of the left edge at
\* that row.
C19_ScanLineDepthOfLeftEdge ==
    FlatTriangleRendered =>
        LET f == TriangleFills(last.t)[1]
            w == FlatVertices(f)
            lines == FillScanLines(f)
        IN  /\ buffer = RenderedLines(lines, last.color, EmptyBuffer)
            /\ \A k \in 1..Len(lines) :
                  LET row == FloatToI32(lines[k].v0.y)
                      visits == LineTrace(lines[k])
                  IN  \A j \in 1..Len(visits) :
                          NearEdgeDepth(DepthAt(buffer, visits[j][1], row), w.apex, w.left, row)

\* C20 as stated, for triangles inside the buffer: a fill renders one
\* horizontal scan line for every row from
\* the apex row to the row of the flat edge, in that order; the scan line of
\* the apex row starts and ends at the x of the apex, the scan line of the
\* flat edge starts at the column of the left vertex of the edge and ends at
\* the column of its right vertex, and on every row the start is not to the
\* right of the end.
C20_OneScanLinePerRow ==
    InsideTriangleRendered =>
        LET fills == TriangleFills(last.t)
        IN  /\ buffer = RenderedLines(ScanLinesOf(fills), last.color, EmptyBuffer)
            /\ \A i \in 1..Len(fills) :
                  HasHeight(fills[i]) =>
                      LET w == FlatVertices(fills[i])
                          lines == FillScanLines(fills[i])
                          n == Abs(w.apex.y - w.left.y)
                          up == IF w.apex.y < w.left.y THEN 1 ELSE -1
                      IN  /\ Len(lines) = n + 1
                          /\ \A k \in 1..Len(lines) :
                                /\ lines[k].v0.y = IntToF(w.apex.y + up * (k - 1))
                                /\ lines[k].v1.y = lines[k].v0.y
                                /\ FLe(lines[k].v0.x, lines[k].v1.x)
                          /\ lines[1].v0.x = IntToF(w.apex.x)
                          /\ lines[1].v1.x = IntToF(w.apex.x)
                          /\ FloatToI32(lines[n + 1].v0.x) = w.left.x
                          /\ FloatToI32(lines[n + 1].v1.x) = w.right.x

\* What the fills do (a companion of C20, not its statement): as C20, but
\* the scan line of the flat edge starts and ends within one pixel of the
\* columns of the vertices of the edge.
C20_OneScanLinePerRowWithinAPixel ==
    (last.op = "triangle" /\ TriangleFits(last.t, buffer) /\ ~buffer.panicked) =>
        LET fills == TriangleFills(last.t)
        IN  /\ buffer = RenderedLines(ScanLinesOf(fills), last.color, EmptyBuffer)
            /\ \A i \in 1..Len(fills) :
                  HasHeight(fills[i]) =>
                      LET w == FlatVertices(fills[i])
                          lines == FillScanLines(fills[i])
                          n == Abs(w.apex.y - w.left.y)
                          up == IF w.apex.y < w.left.y THEN 1 ELSE -1
                      IN  /\ Len(lines) = n + 1
                          /\ \A k \in 1..Len(lines) :
                                /\ lines[k].v0.y = IntToF(w.apex.y + up * (k - 1))
                                /\ lines[k].v1.y = lines[k].v0.y
                                /\ FLe(lines[k].v0.x, lines[k].v1.x)
                          /\ lines[1].v0.x = IntToF(w.apex.x)
                          /\ lines[1].v1.x = IntToF(w.apex.x)
                          /\ Abs(FloatToI32(lines[n + 1].v0.x) - w.left.x) <= 1
                          /\ Abs(FloatToI32(lines[n + 1].v1.x) - w.right.x) <= 1

(***************************************************************************)
(* Properties of set_pixel of the demo program (SpecPixel)                 *)
(***************************************************************************)
\* The index of the first byte of the pixel in column x of the row that is
\* y rows above the bottom row (the array holds the top row first).
ByteIndexAbove(x, y) == ((WIN_HEIGHT - 1 - y) * WIN_WIDTH + x) * BytesPerPixel

\* pixels with the four bytes of color stored from index on.
WithPixel(pixels, index, color) ==
    [i \in DOMAIN pixels |-> IF i \in index..(index + 3) THEN color[i - index + 1] ELSE pixels[i]]

\* The last step was set_pixel(x, y, ...) with (x, y) a window coordinate.
SetPixelInWindow ==
    /\ last.op = "set_pixel"
    /\ last.x < WIN_WIDTH /\ last.y < WIN_HEIGHT

\* C21 as stated: for every window coordinate 0 <= x < WIN_WIDTH and
\* 0 <= y < WIN_HEIGHT, set_pixel stores the four bytes of the colour, from
\* the low byte up, in the pixel in column x of the row y rows above the
\* bottom row, and changes no other byte of the array.
C21_SetPixelWritesItsPixel ==
    SetPixelInWindow =>
        demo.pixels = WithPixel(last.before, ByteIndexAbove(last.x, last.y), last.color)

\* What set_pixel does (a companion of C21, not its statement): a call with
\* y = 0, or for the last pixel of the row of y = 1, leaves the array as it
\* was; every other call for a window coordinate stores the colour in column
\* x of the row y - 1 rows above the bottom row, and no call changes the
\* domain of the array.
C21_SetPixelOneRowBelow ==
    SetPixelInWindow =>
        /\ DOMAIN demo.pixels = DOMAIN last.before
        /\ IF last.y = 0 \/ (last.y = 1 /\ last.x = WIN_WIDTH - 1)
           THEN demo.pixels = last.before
           ELSE demo.pixels = WithPixel(last.before, ByteIndexAbove(last.x, last.y - 1), last.color)

=============================================================================
